---- MODULE Spec2Model ----
(***************************************************************************)
(* Generative content completion pipeline of the student application:      *)
(*   - the asynchronous feedback queue (feedback_queue.py): one bounded    *)
(*     asyncio.Queue, worker tasks created by initialize_feedback_queue,   *)
(*     cancelled by stop_feedback_queue, and the generate call each worker *)
(*     dispatches to a thread with asyncio.to_thread;                      *)
(*   - the question and challenge generation sessions                       *)
(*     (generate_questions.py, generate_challenges.py): the bounded        *)
(*     attempt loop that merges parsed generator responses into            *)
(*     final_result and persists it in the registry.                       *)
(* The two parts are separate programs; QueueSpec runs the first and       *)
(* SessionSpec the second, each leaving the other's variables untouched.   *)
(***************************************************************************)
EXTENDS Integers, Sequences, FiniteSets, TLC

VARIABLES
    queue_created,         \* FALSE while the global feedback_queue is None
    feedback_queue,        \* the queued task ids, in order
    task_results,          \* task id -> the task's record (its domain: the ids with a record)
    feedback_worker_task,  \* 0 (None) or the id of the worker task the global refers to
    model_service,         \* "None" or "created"
    workers,               \* worker id -> [pc, task, cancel, outcome] of that asyncio task
    threads,               \* task ids whose model_service.generate call runs in a thread
    stop_call,             \* 0, or the worker a stop_feedback_queue call is awaiting
    uuid_count,            \* number of task ids handed out by uuid.uuid4()
    clock,                 \* the last value datetime.now() returned to the queue module
    create_outcome,        \* how the last create_feedback_task call ended
    session,               \* "none", "questions", "challenges" or "report": the session being run
    session_pc,            \* "idle", "loop" or "returned"
    generation_attempt,    \* the loop counter of main()
    final_result,          \* the accumulator of main() (present = FALSE while it is None)
    generate_calls,        \* number of service.generate calls made by the session
    last_outcome,          \* outcome of the session's last generate call
    registry,              \* registry entries written by save_*_uuid, in order
    exit_code,             \* "None" or the value main() returned, "0" or "1"
    progress,              \* progress.json: the generation tracking of each content
                           \* and of each content combination
    accessed,              \* the contents progress.json records as viewed
    rejected_challenges,   \* the challenges experiment_progress.json lists as rejected
    challenges_registry,   \* the challenges of challenges_registry.json
    generations,           \* content -> difficulty -> number of question sets saved
    service_calls,         \* call id -> the coroutine of AutomaticQuestionsService
    held_locks,            \* the asyncio.Locks of the service that are held
    fn_call                \* one call of a function examined on its own: its
                           \* arguments and, once it returned, its value

queue_vars == <<queue_created, feedback_queue, task_results, feedback_worker_task, model_service,
                workers, threads, stop_call, uuid_count, clock, create_outcome>>

session_vars == <<session, session_pc, generation_attempt, final_result,
                  generate_calls, last_outcome, registry, exit_code>>

vars == <<queue_created, feedback_queue, task_results, feedback_worker_task,
          model_service, workers, threads, stop_call, uuid_count, clock, create_outcome,
          session, session_pc, generation_attempt, final_result,
          generate_calls, last_outcome, registry, exit_code, fn_call,
          progress, accessed, rejected_challenges, challenges_registry, generations,
          service_calls, held_locks>>

service_vars == <<progress, accessed, rejected_challenges, challenges_registry, generations,
                  service_calls, held_locks>>

None == "None"

\* fn_call while no function is examined on its own
NoCall == [fn |-> "none"]

(***************************************************************************)
(* Bounds of the model.                                                    *)
(***************************************************************************)
\* capacity given to asyncio.Queue(maxsize=...); the source uses 100, the
\* model a capacity small enough for the queue to fill
QueueMaxSize == 2

\* number of create_feedback_task calls explored
MaxTasks == 3

\* number of worker tasks initialize_feedback_queue may create
MaxWorkers == 2

\* largest number of valid records of one question type in one response
MaxBatch == 2

\* largest number of valid challenges in one response
MaxChallengeBatch == 6

\* largest number of records of a challenge response the parser rejects
MaxRejected == 1

\* number of contents of the student
MaxContents == 2

\* number of calls of AutomaticQuestionsService methods explored
MaxServiceCalls == 3

TaskIds == 1..MaxTasks

WorkerIds == 1..MaxWorkers

(***************************************************************************)
(* feedback_queue.py: task statuses and records                            *)
(***************************************************************************)
TASK_STATUS_PENDING == "pending"

TASK_STATUS_PROCESSING == "processing"

TASK_STATUS_COMPLETED == "completed"

TASK_STATUS_ERROR == "error"

\* the record create_feedback_task stores in task_results
NewTaskRecord(created_at) ==
    [status |-> TASK_STATUS_PENDING, created_at |-> created_at, started_at |-> None,
     completed_at |-> None, result |-> None, error |-> None]

\* what model_service.generate can hand back to process_feedback_task:
\* the parsed feedback, the raw text after every parse retry failed (empty
\* or not), or an exception
GenerateOutcomes == {"parsed", "raw_text", "empty", "raise"}

\* save_challenge_submission either returns an id or raises
SaveOutcomes == {"saved", "save_failed"}

\* a worker id for which asyncio.create_task has not been called yet
NoWorker == [pc |-> "none", task |-> 0, cancel |-> FALSE, outcome |-> None]

HasRecord(t) == t \in DOMAIN task_results

StatusOf(t) == IF HasRecord(t) THEN task_results[t].status ELSE None

\* the ids in the queue
Queued == {feedback_queue[i] : i \in 1..Len(feedback_queue)}

\* asyncio.Task.done()
WorkerDone(w) == workers[w].pc = "done"

(***************************************************************************)
(* asyncio.Queue(maxsize=QueueMaxSize)                                     *)
(***************************************************************************)
\* Queue.full(), which put_nowait consults before appending
QueueFull(q) == Len(q) >= QueueMaxSize

QueueGetLifo(q) == [item |-> q[Len(q)], rest |-> SubSeq(q, 1, Len(q) - 1)]

QueueGetPeek(q) == [item |-> Head(q), rest |-> q]

\* Queue.get_nowait(): the oldest item leaves the queue
QueueGet(q) == [item |-> Head(q), rest |-> Tail(q)]

(***************************************************************************)
(* initialize_feedback_queue: no await inside, so one step.  The queue and *)
(* the model service are created once; a worker task is created when the  *)
(* global refers to none or to one that is done.                           *)
(***************************************************************************)
NeedsWorker ==
    IF feedback_worker_task = 0 THEN TRUE ELSE WorkerDone(feedback_worker_task)

CreatedWorkers == {w \in WorkerIds : workers[w].pc # "none"}

\* (a call that finds the queue created and a live worker changes nothing)
initialize_feedback_queue ==
    /\ NeedsWorker
    /\ LET w == Cardinality(CreatedWorkers) + 1 IN
       /\ w \in WorkerIds
       /\ workers' = [workers EXCEPT ![w] = [NoWorker EXCEPT !.pc = "get"]]
       /\ feedback_worker_task' = w
    /\ queue_created' = TRUE
    /\ model_service' = "created"
    /\ UNCHANGED <<feedback_queue, task_results, threads, stop_call, uuid_count,
                   clock, create_outcome, session_vars, fn_call, service_vars>>

(***************************************************************************)
(* stop_feedback_queue: cancel() requests the cancellation, the coroutine  *)
(* then awaits the worker task, and its finally clause clears the global   *)
(* once the worker task is done.                                           *)
(***************************************************************************)
stop_feedback_queue_cancel ==
    /\ stop_call = 0
    /\ feedback_worker_task # 0
    /\ ~WorkerDone(feedback_worker_task)
    /\ workers' = [workers EXCEPT ![feedback_worker_task].cancel = TRUE]
    /\ stop_call' = feedback_worker_task
    /\ UNCHANGED <<queue_created, feedback_queue, task_results, feedback_worker_task,
                   model_service, threads, uuid_count, clock, create_outcome, session_vars, fn_call, service_vars>>

stop_feedback_queue_finally ==
    /\ stop_call # 0
    /\ WorkerDone(stop_call)
    /\ feedback_worker_task' = 0
    /\ stop_call' = 0
    /\ UNCHANGED <<queue_created, feedback_queue, task_results, model_service,
                   workers, threads, uuid_count, clock, create_outcome, session_vars, fn_call, service_vars>>

(***************************************************************************)
(* The same two calls with every call recorded, also the one that finds    *)
(* nothing to do: fn_call holds the first initialize_feedback_queue call   *)
(* that returned since the last stop_feedback_queue call began, with the   *)
(* number of task ids handed out by then.                                  *)
(***************************************************************************)
InitializeReturned == fn_call.fn = "initialize_feedback_queue"

\* lines 54-98, whatever the call finds
initialize_feedback_queue_returns ==
    /\ IF NeedsWorker
       THEN LET w == Cardinality(CreatedWorkers) + 1 IN
            /\ w \in WorkerIds
            /\ workers' = [workers EXCEPT ![w] = [NoWorker EXCEPT !.pc = "get"]]
            /\ feedback_worker_task' = w
       ELSE UNCHANGED <<workers, feedback_worker_task>>
    /\ queue_created' = TRUE
    /\ model_service' = "created"
    /\ fn_call' = IF InitializeReturned THEN fn_call
                  ELSE [fn |-> "initialize_feedback_queue", uuid_count |-> uuid_count]
    /\ UNCHANGED <<feedback_queue, task_results, threads, stop_call, uuid_count,
                   clock, create_outcome, session_vars, service_vars>>

\* lines 100-106: the call up to its await, or the whole call when the
\* global refers to no worker or to one that is done
stop_feedback_queue_begins ==
    /\ stop_call = 0
    /\ IF NeedsWorker
       THEN UNCHANGED <<workers, stop_call>>
       ELSE /\ workers' = [workers EXCEPT ![feedback_worker_task].cancel = TRUE]
            /\ stop_call' = feedback_worker_task
    /\ fn_call' = NoCall
    /\ UNCHANGED <<queue_created, feedback_queue, task_results, feedback_worker_task,
                   model_service, threads, uuid_count, clock, create_outcome,
                   session_vars, service_vars>>

(***************************************************************************)
(* create_feedback_task: synchronous, so one step.                         *)
(***************************************************************************)
DeleteRecordForgotten(tr, t) == tr

\* del task_results[task_id]
DeleteRecord(tr, t) == [x \in (DOMAIN tr) \ {t} |-> tr[x]]

\* datetime.now() in FeedbackTask.__init__ (line 50): the wall clock does not
\* run backwards here, but two readings can be equal (the resolution of
\* the system clock is coarser than the time between two calls)
ClockReadings(last) == {last, last + 1}

\* put_nowait on the global while it is still None raises AttributeError,
\* which the except asyncio.QueueFull clause does not catch: the record
\* stays
create_feedback_task ==
    /\ uuid_count < MaxTasks
    /\ \E now \in ClockReadings(clock) :
       LET task_id == uuid_count + 1
           stored == task_results @@ (task_id :> NewTaskRecord(now)) IN
       /\ uuid_count' = task_id
       /\ clock' = now
       /\ IF ~queue_created
          THEN /\ task_results' = stored
               /\ create_outcome' = "AttributeError"
               /\ UNCHANGED feedback_queue
          ELSE IF QueueFull(feedback_queue)
          THEN \* the record is stored, put_nowait raises QueueFull, the
               \* record is deleted again and ValueError is raised
               /\ task_results' = DeleteRecord(stored, task_id)
               /\ create_outcome' = "queue_full"
               /\ UNCHANGED feedback_queue
          ELSE /\ task_results' = stored
               /\ feedback_queue' = Append(feedback_queue, task_id)
               /\ create_outcome' = "queued"
    /\ UNCHANGED <<queue_created, feedback_worker_task, model_service, workers,
                   threads, stop_call, session_vars, fn_call, service_vars>>

(***************************************************************************)
(* feedback_worker.  A worker suspends only at "await feedback_queue.get()" *)
(* with the queue empty and at "await asyncio.to_thread(...)"; everything  *)
(* between two suspensions is one step.                                    *)
(***************************************************************************)
StartedRecordStillPending(rec) == [rec EXCEPT !.started_at = "set"]

\* lines 126-127: the record of the dequeued task
StartedRecord(rec) ==
    [rec EXCEPT !.status = TASK_STATUS_PROCESSING, !.started_at = "set"]

CompletedRecordUnlessSaveFailed(rec, saved) ==
    IF saved = "saved"
    THEN [rec EXCEPT !.status = TASK_STATUS_COMPLETED,
                     !.result = "feedback_with_submission_id", !.completed_at = "set"]
    ELSE [rec EXCEPT !.status = TASK_STATUS_ERROR, !.error = "save failed",
                     !.completed_at = "set"]

\* lines 156-161: the record of a task whose feedback was generated; the
\* submission id is added to the result only when the save succeeded
CompletedRecord(rec, saved) ==
    [rec EXCEPT !.status = TASK_STATUS_COMPLETED,
                !.result = IF saved = "saved" THEN "feedback_with_submission_id"
                           ELSE "feedback",
                !.completed_at = "set"]

\* str(e) of the exception process_feedback_task raises for an outcome of
\* generate: raw text has no .get (line 214), an empty result is refused
\* (line 212), an exception of generate is passed on
ErrorMessage(outcome) ==
    CASE outcome = "raw_text" -> "AttributeError"
      [] outcome = "empty" -> "Model failed to generate valid feedback"
      [] OTHER -> "generation failed"

ErrorRecordWithoutCompletedAt(rec, outcome) ==
    [rec EXCEPT !.status = TASK_STATUS_ERROR, !.error = ErrorMessage(outcome)]

ErrorRecordAsCompleted(rec, outcome) == CompletedRecord(rec, "save_failed")

\* lines 167-171: the record of a task whose processing raised
ErrorRecord(rec, outcome) ==
    [rec EXCEPT !.status = TASK_STATUS_ERROR, !.error = ErrorMessage(outcome),
                !.completed_at = "set"]

HandledOnlyOnSuccess(outcome) == outcome = "parsed"

\* lines 130-176: the inner try handles the success and every Exception of
\* process_feedback_task, so the loop goes on to task_done() and the next get
StaysInLoop(outcome) == outcome \in GenerateOutcomes

\* one pass from "await feedback_queue.get()" to the next suspension of
\* worker w, starting from records tr: with the queue empty the worker
\* suspends in get(); otherwise the head is dequeued, marked PROCESSING and
\* its generate call is started in a thread
TakeNext(w, tr) ==
    IF feedback_queue = <<>>
    THEN /\ workers' = [workers EXCEPT ![w] = [NoWorker EXCEPT !.pc = "get"]]
         /\ task_results' = tr
         /\ UNCHANGED <<feedback_queue, threads>>
    ELSE LET got == QueueGet(feedback_queue) IN
         /\ feedback_queue' = got.rest
         /\ task_results' = [tr EXCEPT ![got.item] = StartedRecord(tr[got.item])]
         /\ workers' = [workers EXCEPT
                          ![w] = [NoWorker EXCEPT !.pc = "to_thread", !.task = got.item]]
         /\ threads' = threads \cup {got.item}

\* the worker waiting in get() is woken by a put and takes the head
worker_get(w) ==
    /\ workers[w].pc = "get"
    /\ ~workers[w].cancel
    /\ feedback_queue # <<>>
    /\ TakeNext(w, task_results)
    /\ UNCHANGED <<queue_created, feedback_worker_task, model_service, stop_call,
                   uuid_count, clock, create_outcome, session_vars, fn_call, service_vars>>

\* the generate call of task t ends in its thread; the future the worker
\* awaits gets the result unless the worker's cancellation already
\* cancelled that future
generate_returns(t) ==
    /\ t \in threads
    /\ threads' = threads \ {t}
    /\ \E outcome \in GenerateOutcomes :
         workers' = [w \in WorkerIds |->
                       IF workers[w].pc = "to_thread" /\ workers[w].task = t
                          /\ ~workers[w].cancel
                       THEN [workers[w] EXCEPT !.pc = "resume", !.outcome = outcome]
                       ELSE workers[w]]
    /\ UNCHANGED <<queue_created, feedback_queue, task_results, feedback_worker_task,
                   model_service, stop_call, uuid_count, clock, create_outcome, session_vars, fn_call, service_vars>>

\* the worker resumes after to_thread: lines 209-176, then the next get
worker_resume(w) ==
    /\ workers[w].pc = "resume"
    /\ ~workers[w].cancel
    /\ LET t == workers[w].task
           outcome == workers[w].outcome IN
       \E saved \in SaveOutcomes :
         LET tr == [task_results EXCEPT
                      ![t] = IF outcome = "parsed"
                             THEN CompletedRecord(task_results[t], saved)
                             ELSE ErrorRecord(task_results[t], outcome)] IN
         IF StaysInLoop(outcome)
         THEN TakeNext(w, tr)
         ELSE /\ workers' = [workers EXCEPT ![w] = [NoWorker EXCEPT !.pc = "done"]]
              /\ task_results' = tr
              /\ UNCHANGED <<feedback_queue, threads>>
    /\ UNCHANGED <<queue_created, feedback_worker_task, model_service, stop_call,
                   uuid_count, clock, create_outcome, session_vars, fn_call, service_vars>>

\* CancelledError is raised at the await the worker is suspended in.  It is
\* no Exception, so the inner "except Exception" (line 165) lets it pass
\* and "except asyncio.CancelledError" (line 178) leaves the loop: the
\* record of the task in hand is not touched, and the thread running its
\* generate call is not stopped
worker_cancelled(w) ==
    /\ workers[w].pc \in {"get", "to_thread", "resume"}
    /\ workers[w].cancel
    /\ workers' = [workers EXCEPT ![w] = [NoWorker EXCEPT !.pc = "done"]]
    /\ UNCHANGED <<queue_created, feedback_queue, task_results, feedback_worker_task,
                   model_service, threads, stop_call, uuid_count, clock, create_outcome,
                   session_vars, fn_call, service_vars>>

(***************************************************************************)
(* cleanup_old_tasks(hours), lines 314-332: synchronous, so one step.      *)
(* Times are counted in hours: created_at is the clock reading stored by   *)
(* create_feedback_task, and datetime.fromisoformat always parses it, so   *)
(* the bare except of line 324 is never entered.                           *)
(***************************************************************************)
\* number of hours the clock is followed for
MaxClock == 3

\* the ages cleanup_old_tasks is called with
MaxHours == 2

\* number of cleanup_old_tasks calls explored
MaxCleanups == 2

Hours == 0..MaxHours

IsOldOrAtCutoff(created_at, now, hours) == created_at <= now - hours

\* lines 316 and 322: created_timestamp < cutoff_time
IsOld(created_at, now, hours) == created_at < now - hours

\* lines 319-326: the ids collected in old_task_ids
old_task_ids(tr, now, hours) ==
    {task_id \in DOMAIN tr : IsOld(tr[task_id].created_at, now, hours)}

\* lines 328-329: del task_results[task_id] for every collected id
RecordsAfterCleanup(tr, ids) == [t \in (DOMAIN tr) \ ids |-> tr[t]]

CleanupsDone == IF fn_call.fn = "cleanup_old_tasks" THEN fn_call.n ELSE 0

\* the tasks whose record says COMPLETED or ERROR
Finished(tr) ==
    {t \in DOMAIN tr : tr[t].status \in {TASK_STATUS_COMPLETED, TASK_STATUS_ERROR}}

\* fn_call keeps the arguments, the clock reading and the ids of the last
\* call, and which of the ids belonged to tasks waiting or being processed
cleanup_old_tasks ==
    /\ CleanupsDone < MaxCleanups
    /\ \E hours \in Hours, now \in ClockReadings(clock) :
         \E ids \in {old_task_ids(task_results, now, hours)} :
           /\ now <= MaxClock
           /\ clock' = now
           /\ task_results' = RecordsAfterCleanup(task_results, ids)
           /\ fn_call' = [fn |-> "cleanup_old_tasks", hours |-> hours, now |-> now,
                          old_task_ids |-> ids, n |-> CleanupsDone + 1,
                          unfinished |-> ids \ Finished(task_results)]
    /\ UNCHANGED <<queue_created, feedback_queue, feedback_worker_task, model_service,
                   workers, threads, stop_call, uuid_count, create_outcome,
                   session_vars, service_vars>>

\* the wall clock between two calls of the module
time_passes ==
    /\ clock < MaxClock
    /\ clock' = clock + 1
    /\ UNCHANGED <<queue_created, feedback_queue, task_results, feedback_worker_task,
                   model_service, workers, threads, stop_call, uuid_count,
                   create_outcome, session_vars, fn_call, service_vars>>

(***************************************************************************)
(* feedback_worker once records can be missing.  task_results[task_id]     *)
(* raises KeyError for a deleted record: at line 126 it reaches the outer  *)
(* "except Exception" (line 181) and the loop goes on to the next get; at  *)
(* line 156 it reaches the inner "except Exception" (line 165), whose own  *)
(* task_results[task_id] (line 167) raises KeyError again, to line 181.    *)
(***************************************************************************)
SkipDeletedDropsQueue(q, tr) ==
    IF q = <<>> THEN q
    ELSE IF Head(q) \in DOMAIN tr THEN q
    ELSE <<>>

RECURSIVE SkipDeleted(_, _)
\* the queue after the gets that ended in the KeyError of line 126
SkipDeleted(q, tr) ==
    IF q = <<>> THEN q
    ELSE IF Head(q) \in DOMAIN tr THEN q
    ELSE SkipDeleted(Tail(q), tr)

\* TakeNext from the first queued task that still has a record
TakeNextRecorded(w, tr) ==
    \E q \in {SkipDeleted(feedback_queue, tr)} :
      IF q = <<>>
      THEN /\ workers' = [workers EXCEPT ![w] = [NoWorker EXCEPT !.pc = "get"]]
           /\ task_results' = tr
           /\ feedback_queue' = q
           /\ UNCHANGED threads
      ELSE LET got == QueueGet(q) IN
           /\ feedback_queue' = got.rest
           /\ task_results' = [tr EXCEPT ![got.item] = StartedRecord(tr[got.item])]
           /\ workers' = [workers EXCEPT
                            ![w] = [NoWorker EXCEPT !.pc = "to_thread", !.task = got.item]]
           /\ threads' = threads \cup {got.item}

\* worker_get over records that cleanup_old_tasks may have deleted
worker_get_recorded(w) ==
    /\ workers[w].pc = "get"
    /\ ~workers[w].cancel
    /\ feedback_queue # <<>>
    /\ TakeNextRecorded(w, task_results)
    /\ UNCHANGED <<queue_created, feedback_worker_task, model_service, stop_call,
                   uuid_count, clock, create_outcome, session_vars, fn_call, service_vars>>

\* worker_resume over records that cleanup_old_tasks may have deleted
worker_resume_recorded(w) ==
    /\ workers[w].pc = "resume"
    /\ ~workers[w].cancel
    /\ LET t == workers[w].task
           outcome == workers[w].outcome IN
       \E saved \in SaveOutcomes :
         LET tr == IF ~HasRecord(t) THEN task_results
                   ELSE [task_results EXCEPT
                           ![t] = IF outcome = "parsed"
                                  THEN CompletedRecord(task_results[t], saved)
                                  ELSE ErrorRecord(task_results[t], outcome)] IN
         TakeNextRecorded(w, tr)
    /\ UNCHANGED <<queue_created, feedback_worker_task, model_service, stop_call,
                   uuid_count, clock, create_outcome, session_vars, fn_call, service_vars>>

(***************************************************************************)
(* The queries of feedback_queue.py: synchronous reads of task_results     *)
(***************************************************************************)
\* get_queue_position, lines 278-293, over the records tr
get_queue_position(tr, task_id) ==
    IF tr[task_id].status # TASK_STATUS_PENDING THEN 0
    ELSE 1 + Cardinality({other \in DOMAIN tr :
                            /\ tr[other].status = TASK_STATUS_PENDING
                            /\ tr[other].created_at < tr[task_id].created_at})

\* get_task_status, lines 263-276: queue_position of the answer, 0 standing
\* for an answer without that key (no record, or a task that is not PENDING)
QueuePositionOf(task_id) ==
    IF ~HasRecord(task_id) THEN 0
    ELSE IF task_results[task_id].status = TASK_STATUS_PENDING
         THEN get_queue_position(task_results, task_id)
         ELSE 0

\* lines 336-339: the number of records with one status
CountStatus(tr, status) == Cardinality({t \in DOMAIN tr : tr[t].status = status})

\* get_queue_stats, lines 334-348
get_queue_stats ==
    [queue_size |-> IF queue_created THEN Len(feedback_queue) ELSE 0,
     pending_tasks |-> CountStatus(task_results, TASK_STATUS_PENDING),
     processing_tasks |-> CountStatus(task_results, TASK_STATUS_PROCESSING),
     completed_tasks |-> CountStatus(task_results, TASK_STATUS_COMPLETED),
     error_tasks |-> CountStatus(task_results, TASK_STATUS_ERROR),
     total_tasks |-> Cardinality(DOMAIN task_results)]

\* the seconds the generation of a completed task may have taken
MaxProcessingTime == 3

ProcessingTimes == 1..MaxProcessingTime

\* line 308: the average assumed while no task has completed
default_processing_time == 120

seconds_per_minute == 60

\* lines 299-301: the completed tasks that count for the average
completed_tasks(tr) ==
    {t \in DOMAIN tr : /\ tr[t].status = TASK_STATUS_COMPLETED
                       /\ tr[t].processing_time_seconds # 0}

RECURSIVE SumProcessingTime(_, _)
SumProcessingTime(tr, tasks) ==
    IF tasks = {} THEN 0
    ELSE LET t == CHOOSE x \in tasks : TRUE IN
         tr[t].processing_time_seconds + SumProcessingTime(tr, tasks \ {t})

\* the estimate that multiplies by the position itself
EstimatedSecondsFromPosition(position, processing_time) ==
    IF position * processing_time > 0 THEN position * processing_time ELSE 0

\* line 311: max(0, (position - 1) * avg_processing_time), for a time
\* given as the numerator of the average
EstimatedSeconds(position, processing_time) ==
    IF (position - 1) * processing_time > 0 THEN (position - 1) * processing_time ELSE 0

\* estimate_wait_time, lines 295-312: the minutes as a fraction num / den
estimate_wait_time(tr, task_id) ==
    LET position == get_queue_position(tr, task_id)
        completed == completed_tasks(tr)
    IN IF completed # {}
       THEN [num |-> EstimatedSeconds(position, SumProcessingTime(tr, completed)),
             den |-> Cardinality(completed) * seconds_per_minute]
       ELSE [num |-> EstimatedSeconds(position, default_processing_time),
             den |-> seconds_per_minute]

\* get_task_status, lines 263-276, for a task with a record: the keys it
\* adds to a PENDING record, 0 standing for their absence
get_task_status(tr, task_id) ==
    IF tr[task_id].status = TASK_STATUS_PENDING
    THEN [status |-> tr[task_id].status,
          queue_position |-> get_queue_position(tr, task_id),
          estimated_wait_minutes |-> estimate_wait_time(tr, task_id)]
    ELSE [status |-> tr[task_id].status, queue_position |-> 0,
          estimated_wait_minutes |-> [num |-> 0, den |-> 1]]

\* the records task_results may hold: PENDING, PROCESSING and ERROR records
\* without a processing time, COMPLETED records with the seconds their
\* generation took
StatusRecords ==
    {[status |-> st, processing_time_seconds |-> 0] :
       st \in {TASK_STATUS_PENDING, TASK_STATUS_PROCESSING, TASK_STATUS_ERROR}}
      \cup {[status |-> TASK_STATUS_COMPLETED, processing_time_seconds |-> p] :
              p \in ProcessingTimes}

\* the tables of n records created one after the other, with the clock
\* readings of their creation
ResultTables(n) ==
    {[t \in 1..n |-> [status |-> r[t].status,
                      processing_time_seconds |-> r[t].processing_time_seconds,
                      created_at |-> c[t]]] :
       r \in [1..n -> StatusRecords],
       c \in {f \in [1..n -> 0..(MaxTasks - 1)] : \A a, b \in 1..n : a <= b => f[a] <= f[b]}}

(***************************************************************************)
(* generate_questions.py and generate_challenges.py: one session is one    *)
(* run of main() from the attempt loop on.  A record of the accumulator is *)
(* [id, text]: the session-local id and the record's content, named by the *)
(* generate call and the position it came from.                            *)
(***************************************************************************)
max_attempts == 3

total_limit == 8

required_challenges == 5

QuestionTypes ==
    <<"multiple_choice", "true_false", "fill_blank", "short_answer", "free_recall">>

QuestionTypeSet == {QuestionTypes[i] : i \in 1..Len(QuestionTypes)}

ChallengeTypes == <<"challenges">>

Buckets == {"multiple_choice_true_false", "fill_blank", "short_answer", "free_recall"}

\* check_question_requirements, lines 186-191
requirements ==
    [multiple_choice_true_false |-> 3, fill_blank |-> 2, short_answer |-> 2,
     free_recall |-> 1]

\* merge_questions, lines 214-219
requirements_map ==
    [multiple_choice_true_false |-> <<"multiple_choice", "true_false">>,
     fill_blank |-> <<"fill_blank">>, short_answer |-> <<"short_answer">>,
     free_recall |-> <<"free_recall">>]

\* merge_questions, lines 222-227
absolute_limits ==
    [multiple_choice_true_false |-> 3, fill_blank |-> 2, short_answer |-> 2,
     free_recall |-> 1]

Min(a, b) == IF a < b THEN a ELSE b

Max(a, b) == IF a > b THEN a ELSE b

RECURSIVE SumLen(_, _)
\* sum(len(lists[t]) for t in types)
SumLen(lists, types) ==
    IF types = <<>> THEN 0
    ELSE Len(lists[Head(types)]) + SumLen(lists, Tail(types))

TypesOf(kind) == IF kind = "questions" THEN QuestionTypes ELSE ChallengeTypes

\* final_result while it is None
NoResult(kind) ==
    [present |-> FALSE,
     lists |-> [t \in {TypesOf(kind)[i] : i \in 1..Len(TypesOf(kind))} |-> <<>>],
     total |-> 0]

\* the records a parser returns for one block of the response of generate
\* call number call, in which n valid records follow rejected records: the
\* id of a record is its position among all records of the block
\* (enumerate(..., 1)), the rejected ones included
ParsedList(n, call, rejected) ==
    [i \in 1..n |-> [id |-> rejected + i, text |-> <<call, i>>]]

\* parse_questions, lines 418-462, for a response with counts[t] valid
\* records of type t (and none rejected)
ParsedQuestions(counts, call) ==
    LET lists == [t \in QuestionTypeSet |-> ParsedList(counts[t], call, 0)] IN
    [present |-> TRUE, lists |-> lists, total |-> SumLen(lists, QuestionTypes)]

\* parse_challenges, lines 678-714, for a response with n valid challenges
\* after rejected ones that lack a field
ParsedChallenges(n, call, rejected) ==
    LET lists == [t \in {"challenges"} |-> ParsedList(n, call, rejected)] IN
    [present |-> TRUE, lists |-> lists, total |-> n]

\* check_question_requirements, lines 193-198
CurrentCount(result, bucket) == SumLen(result.lists, requirements_map[bucket])

\* check_question_requirements, lines 200-209; a bucket absent from the
\* Python dict has 0 here
MissingOf(result) ==
    [b \in Buckets |-> Max(0, requirements[b] - CurrentCount(result, b))]

OvergeneratedOf(result) ==
    [b \in Buckets |-> Max(0, CurrentCount(result, b) - requirements[b])]

\* truth value of the dict: it has an entry
NonEmptyDict(d) == \E b \in DOMAIN d : d[b] > 0

\* merge_questions lines 261-270 (merge_challenges lines 284-293): the
\* first n records of the new list are appended with ids continuing the
\* length of the existing list
Added(existing, new, n) ==
    existing \o [i \in 1..n |-> [new[i] EXCEPT !.id = Len(existing) + 1 + (i - 1)]]

\* merge_questions lines 234-243: remaining_needed after the absolute limit
AllowedToAdd(lists, bucket, needed) ==
    Min(needed, absolute_limits[bucket] - SumLen(lists, requirements_map[bucket]))

QuestionsToAddWholeBatch(remaining, new_list) == Len(new_list)

\* merge_questions lines 264-270: questions_to_add for a type the loop
\* reaches with remaining_needed = remaining
QuestionsToAdd(remaining, new_list) ==
    IF remaining <= 0 THEN 0 ELSE Min(remaining, Len(new_list))

RECURSIVE RemainingAt(_, _, _, _)
\* merge_questions lines 249-270: remaining_needed when the loop over the
\* types of a bucket reaches types[k], having started with remaining
RemainingAt(new, types, k, remaining) ==
    IF k = 1 THEN remaining
    ELSE LET r == RemainingAt(new, types, k - 1, remaining) IN
         r - QuestionsToAdd(r, new[types[k - 1]])

\* the bucket of requirements_map that lists question type t, and t's
\* position in it
BucketOf(t) == CHOOSE b \in Buckets : \E k \in DOMAIN requirements_map[b] :
                                         requirements_map[b][k] = t

PositionOf(t) == CHOOSE k \in DOMAIN requirements_map[BucketOf(t)] :
                    requirements_map[BucketOf(t)][k] = t

\* merge_questions, lines 212-282: bucket by bucket (the buckets share no
\* type), a bucket with nothing missing or already at its limit is skipped
merge_questions(existing_result, new_result, missing_requirements) ==
    LET lists ==
          [t \in QuestionTypeSet |->
             LET b == BucketOf(t)
                 start == IF missing_requirements[b] <= 0 THEN 0
                          ELSE AllowedToAdd(existing_result.lists, b,
                                            missing_requirements[b])
                 r == RemainingAt(new_result.lists, requirements_map[b],
                                  PositionOf(t), start) IN
             Added(existing_result.lists[t], new_result.lists[t],
                   QuestionsToAdd(r, new_result.lists[t]))] IN
    [present |-> TRUE, lists |-> lists, total |-> SumLen(lists, QuestionTypes)]

\* check_challenge_requirements, lines 262-270
MissingChallenges(result) ==
    Max(0, required_challenges - Len(result.lists["challenges"]))

\* merge_challenges, lines 273-298
merge_challenges(existing_result, new_result, missing_count) ==
    IF missing_count <= 0 THEN existing_result
    ELSE LET old == existing_result.lists["challenges"]
             new == new_result.lists["challenges"]
             lists == [t \in {"challenges"} |->
                         Added(old, new, Min(missing_count, Len(new)))] IN
         [present |-> TRUE, lists |-> lists, total |-> Len(lists["challenges"])]

RECURSIVE RecordsToSave(_, _)
\* save_questions_uuid lines 123-127 (save_challenges_uuid line 210): the
\* records in the order they are saved, type by type, each with its type
RecordsToSave(lists, types) ==
    IF types = <<>> THEN <<>>
    ELSE [i \in 1..Len(lists[Head(types)]) |->
            [type |-> Head(types), text |-> lists[Head(types)][i].text]]
         \o RecordsToSave(lists, Tail(types))

\* the registry SavedRegistry would leave if it started from an empty object
SavedRegistryFromEmpty(reg, records) ==
    [i \in 1..Len(records) |->
       [uuid |-> i, type |-> records[i].type, text |-> records[i].text]]

\* save_questions_uuid lines 128-167 (save_challenges_uuid lines 211-243):
\* one item file and one registry entry with a fresh uuid per record
SavedRegistry(reg, records) ==
    reg \o [i \in 1..Len(records) |->
              [uuid |-> Len(reg) + i, type |-> records[i].type,
               text |-> records[i].text]]

InLoopOneMore(attempt) == attempt <= max_attempts + 1

\* the test of "while generation_attempt <= max_attempts"
InLoop(attempt) == attempt <= max_attempts

QuestionsBreakWhenComplete(result) == ~NonEmptyDict(MissingOf(result))

QuestionsBreakOnlyOverTotal(result) == result.total > total_limit

\* generate_questions.py lines 426-452: whether the loop is left after the
\* accumulator became result
QuestionsBreak(result) ==
    LET missing == NonEmptyDict(MissingOf(result))
        overgenerated == NonEmptyDict(OvergeneratedOf(result)) IN
    \/ result.total = total_limit /\ ~missing
    \/ overgenerated /\ result.total >= total_limit
    \/ ~missing
    \/ missing /\ result.total >= total_limit

\* generate_challenges.py lines 432-436
ChallengesBreak(result) == MissingChallenges(result) = 0

\* lines 471-492 (446-463): what main() does once the loop is left with
\* accumulator result
AfterLoop(result) ==
    /\ session_pc' = "returned"
    /\ IF ~result.present
       THEN /\ exit_code' = "1"
            /\ UNCHANGED registry
       ELSE /\ \E records \in {RecordsToSave(result.lists, TypesOf(session))} :
                 registry' = SavedRegistry(registry, records)
            /\ exit_code' = "0"

\* the end of one pass of the loop body: result is the accumulator, break
\* tells whether the pass ended in a break, otherwise generation_attempt
\* is incremented and the while test is taken
EndOfPass(result, break) ==
    /\ final_result' = result
    /\ IF break
       THEN /\ UNCHANGED generation_attempt
            /\ AfterLoop(result)
       ELSE /\ generation_attempt' = generation_attempt + 1
            /\ IF InLoop(generation_attempt + 1)
               THEN UNCHANGED <<session_pc, registry, exit_code>>
               ELSE AfterLoop(result)

\* service.generate raises (its last internal retry failed): the exception
\* leaves the while loop and reaches "except Exception", lines 494-496
\* (465-467): main() returns 1 without saving
generate_raises ==
    /\ session_pc = "loop"
    /\ generate_calls' = generate_calls + 1
    /\ last_outcome' = "raise"
    /\ session_pc' = "returned"
    /\ exit_code' = "1"
    /\ UNCHANGED <<session, generation_attempt, final_result, registry, queue_vars, fn_call, service_vars>>

\* service.generate returns the raw text (every parse failed): lines
\* 399-402 (415-418)
attempt_failed ==
    /\ session_pc = "loop"
    /\ generate_calls' = generate_calls + 1
    /\ last_outcome' = "non_dict"
    /\ EndOfPass(final_result, FALSE)
    /\ UNCHANGED <<session, queue_vars, fn_call, service_vars>>

QuestionBatches ==
    {c \in [QuestionTypeSet -> 0..MaxBatch] : \E t \in QuestionTypeSet : c[t] > 0}

QuestionsPassAlwaysMerging(final, result, missing_before_merge) ==
    IF final.present
    THEN merge_questions(final, result, missing_before_merge)
    ELSE result

\* generate_questions.py lines 411-423: the accumulator after the parsed
\* response result was received with accumulator final, whose deficits
\* (line 414) are missing_before_merge
QuestionsPass(final, result, missing_before_merge) ==
    IF final.present
    THEN IF NonEmptyDict(OvergeneratedOf(final))
         THEN final
         ELSE merge_questions(final, result, missing_before_merge)
    ELSE result

\* generate_questions.py lines 404-469 for a parsed response (each value
\* of the pass is bound once: result, missing_before_merge, final_result)
questions_attempt ==
    /\ session = "questions"
    /\ session_pc = "loop"
    /\ generate_calls' = generate_calls + 1
    /\ last_outcome' = "dict"
    /\ \E counts \in QuestionBatches :
       \E result \in {ParsedQuestions(counts, generate_calls + 1)} :
       \E missing_before_merge \in {MissingOf(final_result)} :
       \E merged \in {QuestionsPass(final_result, result, missing_before_merge)} :
         EndOfPass(merged, QuestionsBreak(merged))
    /\ UNCHANGED <<session, queue_vars, fn_call, service_vars>>

\* generate_challenges.py lines 420-444 for a parsed response
challenges_attempt ==
    /\ session = "challenges"
    /\ session_pc = "loop"
    /\ generate_calls' = generate_calls + 1
    /\ last_outcome' = "dict"
    /\ \E n \in 1..MaxChallengeBatch, rejected \in 0..MaxRejected :
       \E result \in {ParsedChallenges(n, generate_calls + 1, rejected)} :
       \E merged \in {IF final_result.present
                      THEN merge_challenges(final_result, result,
                                            MissingChallenges(final_result))
                      ELSE result} :
         EndOfPass(merged, ChallengesBreak(merged))
    /\ UNCHANGED <<session, queue_vars, fn_call, service_vars>>

(***************************************************************************)
(* automatic_questions_service.py: the generation tracking kept in         *)
(* progress.json and the coroutines of AutomaticQuestionsService.  A       *)
(* coroutine loads the whole file before it awaits the generation script   *)
(* and writes the whole file back afterwards.                              *)
(***************************************************************************)
ContentIds == 1..MaxContents

ServiceCallIds == 1..MaxServiceCalls

\* a content combination: "_".join(sorted(accessed_content)), one key per
\* set of contents
ContentKeys == (SUBSET ContentIds) \ {{}}

DIFFICULTY_LEVELS == <<"easy", "medium", "hard">>

DifficultySet == {DIFFICULTY_LEVELS[i] : i \in 1..Len(DIFFICULTY_LEVELS)}

\* initialize_questions_tracking, lines 95-102 (tracked = FALSE while the
\* content has no "questions" key)
NoQuestionsTracking ==
    [tracked |-> FALSE, easy_generated |-> FALSE, medium_generated |-> FALSE,
     hard_generations |-> 0, current_available_difficulty |-> None]

\* initialize_challenges_tracking, lines 104-111
NoChallengesTracking == [tracked |-> FALSE, generated |-> FALSE, generation_count |-> 0]

\* progress.json before any generation
EmptyProgress ==
    [questions |-> [c \in ContentIds |-> NoQuestionsTracking],
     challenges |-> [k \in ContentKeys |-> NoChallengesTracking]]

\* a call id no coroutine has been started for
NoServiceCall ==
    [fn |-> "none", pc |-> "none", content |-> 0, content_key |-> {},
     difficulty |-> None, progress_data |-> EmptyProgress, registry |-> {},
     returncode |-> None, created_task |-> FALSE]

StartedServiceCalls == {k \in ServiceCallIds : service_calls[k].pc # "none"}

\* _generate_questions_async line 377 (_generate_challenges_async line
\* 660): what the caller of the script makes of its exit status
GenerationSucceeded(code) == code = "0"

\* the id of the next coroutine
NextServiceCall == Cardinality(StartedServiceCalls) + 1

\* self._challenge_generation_locks[content_key], lines 40-44
ChallengeLock(content_key) == <<"challenge", content_key>>

\* the uuids save_challenges_uuid mints in the run started by call k: the
\* run of a session that met the quota saves required_challenges records
ChallengesOfRun(k) == {<<k, i>> : i \in 1..required_challenges}

\* line 590: the decisions the student must have made before a regeneration
MinDecisions == 3

\* the student views a content: progress.json records viewed sections, so
\* discover_accessed_content (lines 413-445) lists it from now on
content_accessed(c) ==
    /\ c \notin accessed
    /\ accessed' = accessed \cup {c}
    /\ UNCHANGED <<progress, rejected_challenges, challenges_registry, generations,
                   service_calls, held_locks, queue_vars, session_vars, fn_call>>

\* the student rejects the challenges on offer: experiment_progress.json
\* lists them as rejected (read by count_available_challenges, lines 543-549)
challenges_rejected ==
    /\ challenges_registry \ rejected_challenges # {}
    /\ rejected_challenges' = challenges_registry
    /\ UNCHANGED <<progress, accessed, challenges_registry, generations,
                   service_calls, held_locks, queue_vars, session_vars, fn_call>>

\* trigger_challenge_generation up to "await self._generate_challenges_async",
\* lines 447-498.  The call runs when the lock of its content combination
\* is free; a call that finds the challenges of the combination generated
\* returns False and changes nothing
trigger_challenge_generation(trigger_content_id) ==
    /\ NextServiceCall \in ServiceCallIds
    /\ accessed # {}
    /\ ChallengeLock(accessed) \notin held_locks
    /\ ~progress.challenges[accessed].generated
    /\ held_locks' = held_locks \cup {ChallengeLock(accessed)}
    /\ service_calls' =
         [service_calls EXCEPT
            ![NextServiceCall] =
               [NoServiceCall EXCEPT
                  !.fn = "trigger_challenge_generation", !.pc = "generating",
                  !.content = trigger_content_id, !.content_key = accessed,
                  !.progress_data =
                     [progress EXCEPT !.challenges[accessed].tracked = TRUE]]]
    /\ UNCHANGED <<progress, accessed, rejected_challenges, challenges_registry,
                   generations, queue_vars, session_vars, fn_call>>

\* check_challenge_exhaustion_and_regenerate up to the await, lines 557-598:
\* it goes on only with no challenge available and enough decisions made,
\* and takes no lock
check_challenge_exhaustion_and_regenerate ==
    /\ NextServiceCall \in ServiceCallIds
    /\ accessed # {}
    /\ challenges_registry \ rejected_challenges = {}
    /\ Cardinality(rejected_challenges) >= MinDecisions
    /\ service_calls' =
         [service_calls EXCEPT
            ![NextServiceCall] =
               [NoServiceCall EXCEPT
                  !.fn = "check_challenge_exhaustion_and_regenerate",
                  !.pc = "generating", !.content_key = accessed]]
    /\ UNCHANGED <<progress, accessed, rejected_challenges, challenges_registry,
                   generations, held_locks, queue_vars, session_vars, fn_call>>

ChallengeFunctions ==
    {"trigger_challenge_generation", "check_challenge_exhaustion_and_regenerate"}

\* the generate_challenges.py process of call k reaches save_challenges_uuid
\* and loads the registry file, lines 202-204
run_loads_registry(k) ==
    /\ service_calls[k].fn \in ChallengeFunctions
    /\ service_calls[k].pc = "generating"
    /\ service_calls' = [service_calls EXCEPT ![k].pc = "saving",
                                             ![k].registry = challenges_registry]
    /\ UNCHANGED <<progress, accessed, rejected_challenges, challenges_registry,
                   generations, held_locks, queue_vars, session_vars, fn_call>>

\* the process adds its challenges to the registry it loaded, writes the
\* file (lines 209-255) and exits with status 0
run_writes_registry(k) ==
    /\ service_calls[k].fn \in ChallengeFunctions
    /\ service_calls[k].pc = "saving"
    /\ challenges_registry' = service_calls[k].registry \cup ChallengesOfRun(k)
    /\ service_calls' = [service_calls EXCEPT ![k].pc = "exited", ![k].returncode = "0"]
    /\ UNCHANGED <<progress, accessed, rejected_challenges, generations, held_locks,
                   queue_vars, session_vars, fn_call>>

\* the process exits with status 1: nothing was generated
run_fails(k) ==
    /\ service_calls[k].fn \in ChallengeFunctions
    /\ service_calls[k].pc = "generating"
    /\ service_calls' = [service_calls EXCEPT ![k].pc = "exited", ![k].returncode = "1"]
    /\ UNCHANGED <<progress, accessed, rejected_challenges, challenges_registry,
                   generations, held_locks, queue_vars, session_vars, fn_call>>

\* trigger_challenge_generation after the await, lines 500-516: on success
\* the tracking of the combination is updated in the progress data loaded
\* before the await and the whole file is written; the lock is released
trigger_challenge_generation_resume(k) ==
    /\ service_calls[k].fn = "trigger_challenge_generation"
    /\ service_calls[k].pc = "exited"
    /\ LET key == service_calls[k].content_key
           data == service_calls[k].progress_data IN
       progress' =
          IF GenerationSucceeded(service_calls[k].returncode)
          THEN [data EXCEPT
                  !.challenges[key].generated = TRUE,
                  !.challenges[key].generation_count = @ + 1]
          ELSE progress
    /\ held_locks' = held_locks \ {ChallengeLock(service_calls[k].content_key)}
    /\ service_calls' = [service_calls EXCEPT ![k].pc = "returned"]
    /\ UNCHANGED <<accessed, rejected_challenges, challenges_registry, generations,
                   queue_vars, session_vars, fn_call>>

\* check_challenge_exhaustion_and_regenerate after the await, lines 600-615:
\* on success the progress file is loaded, the count of a tracked
\* combination is incremented and the file is written
check_challenge_exhaustion_resume(k) ==
    /\ service_calls[k].fn = "check_challenge_exhaustion_and_regenerate"
    /\ service_calls[k].pc = "exited"
    /\ LET key == service_calls[k].content_key IN
       progress' =
          IF /\ GenerationSucceeded(service_calls[k].returncode)
             /\ progress.challenges[key].tracked
          THEN [progress EXCEPT !.challenges[key].generation_count = @ + 1]
          ELSE progress
    /\ service_calls' = [service_calls EXCEPT ![k].pc = "returned"]
    /\ UNCHANGED <<accessed, rejected_challenges, challenges_registry, generations,
                   held_locks, queue_vars, session_vars, fn_call>>

\* self._question_generation_locks[content_id], lines 46-50
QuestionLock(content_id) == <<"question", content_id>>

\* _get_next_difficulty, lines 312-333
get_next_difficulty(current_difficulty, questions_data) ==
    IF current_difficulty = "easy"
    THEN IF ~questions_data.medium_generated THEN "medium" ELSE None
    ELSE IF current_difficulty = "medium"
    THEN IF questions_data.hard_generations = 0 THEN "hard" ELSE None
    ELSE IF current_difficulty = "hard" THEN "hard"
    ELSE None

\* trigger_initial_questions up to "await self._generate_questions_async",
\* lines 113-148.  The call runs when the lock of the content is free and
\* loads the progress file; a call that finds easy_generated set returns
\* False and changes nothing
trigger_initial_questions(content_id) ==
    /\ NextServiceCall \in ServiceCallIds
    /\ QuestionLock(content_id) \notin held_locks
    /\ ~progress.questions[content_id].easy_generated
    /\ held_locks' = held_locks \cup {QuestionLock(content_id)}
    /\ service_calls' =
         [service_calls EXCEPT
            ![NextServiceCall] =
               [NoServiceCall EXCEPT
                  !.fn = "trigger_initial_questions", !.pc = "generating",
                  !.content = content_id, !.difficulty = "easy",
                  !.progress_data =
                     [progress EXCEPT !.questions[content_id].tracked = TRUE]]]
    /\ UNCHANGED <<progress, accessed, rejected_challenges, challenges_registry,
                   generations, queue_vars, session_vars, fn_call>>

\* check_completion_and_progress up to the await, lines 179-217, in a call
\* where _is_difficulty_completed finds every question of the current
\* difficulty answered correctly and _get_next_difficulty names a
\* difficulty; any other call returns None and changes nothing.  No lock
\* is taken
check_completion_and_progress(content_id) ==
    /\ NextServiceCall \in ServiceCallIds
    /\ progress.questions[content_id].tracked
    /\ progress.questions[content_id].current_available_difficulty # None
    /\ \E next_difficulty \in
            {get_next_difficulty(progress.questions[content_id].current_available_difficulty,
                                 progress.questions[content_id])} :
         /\ next_difficulty # None
         /\ service_calls' =
              [service_calls EXCEPT
                 ![NextServiceCall] =
                    [NoServiceCall EXCEPT
                       !.fn = "check_completion_and_progress", !.pc = "generating",
                       !.content = content_id, !.difficulty = next_difficulty,
                       !.progress_data = progress]]
    /\ UNCHANGED <<progress, accessed, rejected_challenges, challenges_registry,
                   generations, held_locks, queue_vars, session_vars, fn_call>>

QuestionFunctions == {"trigger_initial_questions", "check_completion_and_progress"}

\* _generate_questions_async, lines 335-390: the generate_questions.py
\* process of call k exits, with status 0 after saving a set of questions
\* of the difficulty, with status 1 after saving nothing
questions_run_exits(k, code) ==
    /\ service_calls[k].fn \in QuestionFunctions
    /\ service_calls[k].pc = "generating"
    /\ generations' =
         IF GenerationSucceeded(code)
         THEN [generations EXCEPT ![service_calls[k].content][service_calls[k].difficulty] = @ + 1]
         ELSE generations
    /\ service_calls' = [service_calls EXCEPT ![k].pc = "exited", ![k].returncode = code]
    /\ UNCHANGED <<progress, accessed, rejected_challenges, challenges_registry,
                   held_locks, queue_vars, session_vars, fn_call>>

\* trigger_initial_questions after the await, lines 150-177: on success
\* easy_generated is set in the progress data loaded before the await, the
\* whole file is written and a task running trigger_challenge_generation is
\* created; the lock is released
trigger_initial_questions_resume(k) ==
    /\ service_calls[k].fn = "trigger_initial_questions"
    /\ service_calls[k].pc = "exited"
    /\ LET c == service_calls[k].content
           data == service_calls[k].progress_data IN
       progress' =
          IF GenerationSucceeded(service_calls[k].returncode)
          THEN [data EXCEPT !.questions[c].easy_generated = TRUE,
                            !.questions[c].current_available_difficulty = "easy"]
          ELSE progress
    /\ held_locks' = held_locks \ {QuestionLock(service_calls[k].content)}
    /\ service_calls' =
         [service_calls EXCEPT
            ![k].pc = "returned",
            ![k].created_task = GenerationSucceeded(service_calls[k].returncode)]
    /\ UNCHANGED <<accessed, rejected_challenges, challenges_registry, generations,
                   queue_vars, session_vars, fn_call>>

\* check_completion_and_progress after the await, lines 219-245: on success
\* the tracking of the content is updated in the progress data loaded
\* before the await and the whole file is written
check_completion_and_progress_resume(k) ==
    /\ service_calls[k].fn = "check_completion_and_progress"
    /\ service_calls[k].pc = "exited"
    /\ LET c == service_calls[k].content
           next_difficulty == service_calls[k].difficulty
           data == service_calls[k].progress_data IN
       progress' =
          IF GenerationSucceeded(service_calls[k].returncode)
          THEN IF next_difficulty = "medium"
               THEN [data EXCEPT !.questions[c].medium_generated = TRUE,
                                 !.questions[c].current_available_difficulty = next_difficulty]
               ELSE [data EXCEPT !.questions[c].hard_generations = @ + 1,
                                 !.questions[c].current_available_difficulty = next_difficulty]
          ELSE progress
    /\ service_calls' = [service_calls EXCEPT ![k].pc = "returned"]
    /\ UNCHANGED <<accessed, rejected_challenges, challenges_registry, generations,
                   held_locks, queue_vars, session_vars, fn_call>>

(***************************************************************************)
(* parsers.py: the parsers of model responses.  A text is a sequence of    *)
(* characters; None, which the parsers return only in place of an empty    *)
(* text, is the empty sequence.                                            *)
(***************************************************************************)
Whitespace == {" "}

RECURSIVE StripLeft(_)
StripLeft(s) ==
    IF s # <<>> /\ Head(s) \in Whitespace THEN StripLeft(Tail(s)) ELSE s

RECURSIVE StripRight(_)
StripRight(s) ==
    IF s # <<>> /\ s[Len(s)] \in Whitespace
    THEN StripRight(SubSeq(s, 1, Len(s) - 1))
    ELSE s

\* str.strip()
Strip(s) == StripRight(StripLeft(s))

\* a tag pair that does not occur in the text searched
Absent == <<"absent">>

\* student-app parsers.py parse_simple_xml_tag, lines 8-37, on a text in
\* which the pair of the tag occurs once with inner text raw, or not at all
TagValue(raw) == IF raw = Absent THEN <<>> ELSE Strip(raw)

\* the option tags _parse_multiple_choice_questions reads, lines 520-523
OptionKeys == {"a", "b", "c", "d"}

\* lines 516-525: the options of a question, those without text removed
ParsedOptions(question) ==
    LET values == [k \in OptionKeys |->
                     IF question.options_block THEN TagValue(question.options[k])
                     ELSE <<>>]
    IN [keys |-> {k \in OptionKeys : values[k] # <<>>}, values |-> values]

\* lines 527-535: the record built from the i-th question block
QuestionData(question, i) ==
    [id |-> i, text |-> TagValue(question.text),
     options |-> ParsedOptions(question),
     correct_answer |-> TagValue(question.answer)]

KeyText(k) == <<k>>

\* the validator with the membership test of lines 488-490 left out
ValidateWithoutMembership(question_data) ==
    /\ question_data.options.keys # {}
    /\ question_data.correct_answer # <<>>

\* _validate_multiple_choice_question, lines 469-497
validate_multiple_choice_question(question_data) ==
    /\ question_data.options.keys # {}
    /\ question_data.correct_answer # <<>>
    /\ \E k \in question_data.options.keys :
         /\ KeyText(k) = question_data.correct_answer
         /\ question_data.options.values[k] # <<>>

\* lines 527-541: the test that decides whether the record is appended
AcceptedQuestion(question_data) ==
    /\ question_data.text # <<>>
    /\ question_data.correct_answer # <<>>
    /\ question_data.options.keys # {}
    /\ validate_multiple_choice_question(question_data)

\* _parse_multiple_choice_questions, lines 500-563, on the question blocks
\* of a response
RECURSIVE ParseMultipleChoiceFrom(_, _)
ParseMultipleChoiceFrom(questions, i) ==
    IF i > Len(questions) THEN <<>>
    ELSE (IF AcceptedQuestion(QuestionData(questions[i], i))
          THEN <<QuestionData(questions[i], i)>> ELSE <<>>)
         \o ParseMultipleChoiceFrom(questions, i + 1)

parse_multiple_choice_questions(questions) == ParseMultipleChoiceFrom(questions, 1)

\* the question blocks a response may hold
MaxQuestions == 2

AnswerTexts == {Absent, <<" ">>, <<"a">>, <<" ", "a", " ">>, <<"b">>, <<"e">>, <<"A">>}

OptionTexts == {Absent, <<" ">>, <<"x">>, <<" ", "x">>}

QuestionBlocks ==
    {[text |-> t, answer |-> a, options_block |-> ob,
      options |-> [k \in OptionKeys |-> IF k = "a" THEN oa ELSE IF k = "b" THEN <<"y">> ELSE oc]] :
        t \in {Absent, <<"q">>}, a \in AnswerTexts, ob \in BOOLEAN,
        oa \in OptionTexts, oc \in {Absent, <<"z">>}}

Responses ==
    UNION {[1..n -> QuestionBlocks] : n \in 1..MaxQuestions}

\* tutor-app parsers.py COMMON_TAG_TYPOS, lines 25-72, in the order of the
\* dictionary: <<typo, canonical>>
COMMON_TAG_TYPOS ==
  <<<<"recommendaions", "recommendations">>,
     <<"recommendaion", "recommendations">>,
     <<"recomendations", "recommendations">>,
     <<"recomendaions", "recommendations">>,
     <<"recommendtions", "recommendations">>,
     <<"recomendtions", "recommendations">>,
     <<"reccommendations", "recommendations">>,
     <<"reccomendations", "recommendations">>,
     <<"progrression", "progression">>,
     <<"progresion", "progression">>,
     <<"progresssion", "progression">>,
     <<"progreesion", "progression">>,
     <<"progresstion", "progression">>,
     <<"executiv_summary", "executive_summary">>,
     <<"executive_sumary", "executive_summary">>,
     <<"executiv_sumary", "executive_summary">>,
     <<"executive_summry", "executive_summary">>,
     <<"executve_summary", "executive_summary">>,
     <<"executiv_summery", "executive_summary">>,
     <<"priorit_focus", "priority_focus">>,
     <<"priority_focuss", "priority_focus">>,
     <<"priortiy_focus", "priority_focus">>,
     <<"priority_foccus", "priority_focus">>,
     <<"priorty_focus", "priority_focus">>,
     <<"prioritie_focus", "priority_focus">>,
     <<"findinggs", "findings">>,
     <<"findigns", "findings">>,
     <<"finidngs", "findings">>,
     <<"findngs", "findings">>,
     <<"findingss", "findings">>,
     <<"notess", "notes">>,
     <<"nots", "notes">>,
     <<"noets", "notes">>,
     <<"note", "notes">>>>

\* the characters of the tag names of the table, of a name at edit distance
\* 1 of "notes" that the table lacks and of a longer name that begins with
\* "notes"
NameSpelling ==
  <<<<"recommendations", <<"r", "e", "c", "o", "m", "m", "e", "n", "d", "a", "t", "i", "o", "n", "s">>>>,
     <<"recommendaions", <<"r", "e", "c", "o", "m", "m", "e", "n", "d", "a", "i", "o", "n", "s">>>>,
     <<"recommendaion", <<"r", "e", "c", "o", "m", "m", "e", "n", "d", "a", "i", "o", "n">>>>,
     <<"recomendations", <<"r", "e", "c", "o", "m", "e", "n", "d", "a", "t", "i", "o", "n", "s">>>>,
     <<"recomendaions", <<"r", "e", "c", "o", "m", "e", "n", "d", "a", "i", "o", "n", "s">>>>,
     <<"recommendtions", <<"r", "e", "c", "o", "m", "m", "e", "n", "d", "t", "i", "o", "n", "s">>>>,
     <<"recomendtions", <<"r", "e", "c", "o", "m", "e", "n", "d", "t", "i", "o", "n", "s">>>>,
     <<"reccommendations", <<"r", "e", "c", "c", "o", "m", "m", "e", "n", "d", "a", "t", "i", "o", "n", "s">>>>,
     <<"reccomendations", <<"r", "e", "c", "c", "o", "m", "e", "n", "d", "a", "t", "i", "o", "n", "s">>>>,
     <<"progression", <<"p", "r", "o", "g", "r", "e", "s", "s", "i", "o", "n">>>>,
     <<"progrression", <<"p", "r", "o", "g", "r", "r", "e", "s", "s", "i", "o", "n">>>>,
     <<"progresion", <<"p", "r", "o", "g", "r", "e", "s", "i", "o", "n">>>>,
     <<"progresssion", <<"p", "r", "o", "g", "r", "e", "s", "s", "s", "i", "o", "n">>>>,
     <<"progreesion", <<"p", "r", "o", "g", "r", "e", "e", "s", "i", "o", "n">>>>,
     <<"progresstion", <<"p", "r", "o", "g", "r", "e", "s", "s", "t", "i", "o", "n">>>>,
     <<"executive_summary", <<"e", "x", "e", "c", "u", "t", "i", "v", "e", "_", "s", "u", "m", "m", "a", "r", "y">>>>,
     <<"executiv_summary", <<"e", "x", "e", "c", "u", "t", "i", "v", "_", "s", "u", "m", "m", "a", "r", "y">>>>,
     <<"executive_sumary", <<"e", "x", "e", "c", "u", "t", "i", "v", "e", "_", "s", "u", "m", "a", "r", "y">>>>,
     <<"executiv_sumary", <<"e", "x", "e", "c", "u", "t", "i", "v", "_", "s", "u", "m", "a", "r", "y">>>>,
     <<"executive_summry", <<"e", "x", "e", "c", "u", "t", "i", "v", "e", "_", "s", "u", "m", "m", "r", "y">>>>,
     <<"executve_summary", <<"e", "x", "e", "c", "u", "t", "v", "e", "_", "s", "u", "m", "m", "a", "r", "y">>>>,
     <<"executiv_summery", <<"e", "x", "e", "c", "u", "t", "i", "v", "_", "s", "u", "m", "m", "e", "r", "y">>>>,
     <<"priority_focus", <<"p", "r", "i", "o", "r", "i", "t", "y", "_", "f", "o", "c", "u", "s">>>>,
     <<"priorit_focus", <<"p", "r", "i", "o", "r", "i", "t", "_", "f", "o", "c", "u", "s">>>>,
     <<"priority_focuss", <<"p", "r", "i", "o", "r", "i", "t", "y", "_", "f", "o", "c", "u", "s", "s">>>>,
     <<"priortiy_focus", <<"p", "r", "i", "o", "r", "t", "i", "y", "_", "f", "o", "c", "u", "s">>>>,
     <<"priority_foccus", <<"p", "r", "i", "o", "r", "i", "t", "y", "_", "f", "o", "c", "c", "u", "s">>>>,
     <<"priorty_focus", <<"p", "r", "i", "o", "r", "t", "y", "_", "f", "o", "c", "u", "s">>>>,
     <<"prioritie_focus", <<"p", "r", "i", "o", "r", "i", "t", "i", "e", "_", "f", "o", "c", "u", "s">>>>,
     <<"findings", <<"f", "i", "n", "d", "i", "n", "g", "s">>>>,
     <<"findinggs", <<"f", "i", "n", "d", "i", "n", "g", "g", "s">>>>,
     <<"findigns", <<"f", "i", "n", "d", "i", "g", "n", "s">>>>,
     <<"finidngs", <<"f", "i", "n", "i", "d", "n", "g", "s">>>>,
     <<"findngs", <<"f", "i", "n", "d", "n", "g", "s">>>>,
     <<"findingss", <<"f", "i", "n", "d", "i", "n", "g", "s", "s">>>>,
     <<"notes", <<"n", "o", "t", "e", "s">>>>,
     <<"notess", <<"n", "o", "t", "e", "s", "s">>>>,
     <<"nots", <<"n", "o", "t", "s">>>>,
     <<"noets", <<"n", "o", "e", "t", "s">>>>,
     <<"note", <<"n", "o", "t", "e">>>>,
     <<"notas", <<"n", "o", "t", "a", "s">>>>,
     <<"notes_v2", <<"n", "o", "t", "e", "s", "_", "v", "2">>>>>>

Names == {NameSpelling[i][1] : i \in 1..Len(NameSpelling)}

NameChars == [n \in Names |-> (CHOOSE e \in {NameSpelling[i] : i \in 1..Len(NameSpelling)} : e[1] = n)[2]]

\* f"<{tag_name}>" and f"</{tag_name}>"
OpenTag(n) == "<" \o n \o ">"

CloseTag(n) == "</" \o n \o ">"

OpenTags == {OpenTag(n) : n \in Names}

CloseTags == {CloseTag(n) : n \in Names}

\* the name inside a tag, the group (\w+) of the pattern at line 97
TagName == [t \in OpenTags \cup CloseTags |->
              CHOOSE n \in Names : t \in {OpenTag(n), CloseTag(n)}]

\* None as a returned value
NotFound == <<"None">>

\* str.find(token, from): the first position at or after from, 0 for -1
FindFrom(text, token, from) ==
    IF \E i \in from..Len(text) : text[i] = token
    THEN CHOOSE i \in from..Len(text) :
           text[i] = token /\ \A j \in from..(i - 1) : text[j] # token
    ELSE 0

\* response_str[start_index:end_index].strip(), "content if content else
\* None": s is the position of the opening tag, e of the closing tag
Content(text, s, e) ==
    LET content == Strip(SubSeq(text, s + 1, e - 1)) IN
    IF content = <<>> THEN NotFound ELSE content

\* student-app parsers.py parse_simple_xml_tag, lines 8-37
parse_simple_xml_tag(response_str, tag_name) ==
    LET start_index == FindFrom(response_str, OpenTag(tag_name), 1)
        end_index == FindFrom(response_str, CloseTag(tag_name), 1)
    IN IF start_index = 0 \/ end_index = 0 THEN NotFound
       ELSE Content(response_str, start_index, end_index)

\* tutor-app parsers.py levenshtein_distance, lines 74-91: one row of the
\* table, built from the previous row for character c1
RECURSIVE LevenshteinRow(_, _, _, _)
LevenshteinRow(previous_row, current_row, c1, s2) ==
    IF Len(current_row) = Len(s2) + 1 THEN current_row
    ELSE LET j == Len(current_row)
             insertions == previous_row[j + 1] + 1
             deletions == current_row[j] + 1
             substitutions == previous_row[j] + (IF c1 # s2[j] THEN 1 ELSE 0)
         IN LevenshteinRow(previous_row,
                           Append(current_row, Min(Min(insertions, deletions), substitutions)),
                           c1, s2)

RECURSIVE LevenshteinRows(_, _, _, _)
LevenshteinRows(previous_row, s1, s2, i) ==
    IF i > Len(s1) THEN previous_row[Len(s2) + 1]
    ELSE LevenshteinRows(LevenshteinRow(previous_row, <<i>>, s1[i], s2), s1, s2, i + 1)

levenshtein_distance(s1, s2) ==
    LET long == IF Len(s1) < Len(s2) THEN s2 ELSE s1
        short == IF Len(s1) < Len(s2) THEN s1 ELSE s2
    IN IF Len(short) = 0 THEN Len(long)
       ELSE LevenshteinRows([k \in 1..(Len(short) + 1) |-> k - 1], long, short, 1)

\* the edit distance between two tag names
NameDistance == [a \in Names |-> [b \in Names |-> levenshtein_distance(NameChars[a], NameChars[b])]]

\* the names of the tags of a text, line 98 (the texts examined are in
\* lower case, on which lower() and IGNORECASE change nothing)
FoundTags(text) ==
    {TagName[text[i]] : i \in {k \in 1..Len(text) : text[k] \in OpenTags \cup CloseTags}}

max_distance == 2

\* find_similar_tags, lines 94-108, without the sort
find_similar_tags(response_str, target_tag) ==
    {tag \in FoundTags(response_str) :
       /\ NameDistance[tag][target_tag] <= max_distance
       /\ NameDistance[tag][target_tag] > 0}

\* the first element of the sorted list (line 132): a tag at the smallest
\* distance; the order of tags at the same distance is the iteration order
\* of a set of strings, which differs from run to run
ClosestTags(response_str, target_tag) ==
    LET similar == find_similar_tags(response_str, target_tag) IN
    {tag \in similar :
       \A other \in similar : NameDistance[tag][target_tag] <= NameDistance[other][target_tag]}

\* the typos of the table whose canonical name is target, in table order
RECURSIVE TyposFrom(_, _)
TyposFrom(target, i) ==
    IF i > Len(COMMON_TAG_TYPOS) THEN <<>>
    ELSE (IF COMMON_TAG_TYPOS[i][2] = target THEN <<COMMON_TAG_TYPOS[i][1]>> ELSE <<>>)
         \o TyposFrom(target, i + 1)

TyposOf == [target \in Names |-> TyposFrom(target, 1)]

StartsWith(s, prefix) ==
    Len(prefix) <= Len(s) /\ SubSeq(s, 1, Len(prefix)) = prefix

ContainsName(s, part) ==
    \E k \in 0..(Len(s) - Len(part)) : SubSeq(s, k + 1, k + Len(part)) = part

\* lines 137-145: the names of the list all_variants and how often each
\* occurs in it
VariantCount(text, target, n) ==
    Cardinality({i \in 1..Len(text) :
                   \/ text[i] = OpenTag(n) /\ StartsWith(NameChars[n], NameChars[target])
                   \/ text[i] = CloseTag(n) /\ ContainsName(NameChars[n], NameChars[target])})

\* line 147, max(set(all_variants), key=all_variants.count): a name that
\* occurs most often, any of them when several do
MostCommonVariants(text, target) ==
    {n \in FoundTags(text) :
       /\ VariantCount(text, target, n) > 0
       /\ \A m \in FoundTags(text) : VariantCount(text, target, m) <= VariantCount(text, target, n)}

\* no tag to extract with: find_best_tag_match returned (None, None)
NoTag == "None"

\* find_best_tag_match, lines 110-151: the tags it may return
find_best_tag_match(response_str, target_tag) ==
    LET typos == TyposOf[target_tag]
        present == {i \in 1..Len(typos) :
                      \E k \in 1..Len(response_str) : response_str[k] = OpenTag(typos[i])}
    IN IF \E k \in 1..Len(response_str) : response_str[k] = OpenTag(target_tag)
       THEN {target_tag}
       ELSE IF present # {}
       THEN {typos[CHOOSE i \in present : \A j \in present : i <= j]}
       ELSE IF find_similar_tags(response_str, target_tag) # {}
       THEN ClosestTags(response_str, target_tag)
       ELSE IF MostCommonVariants(response_str, target_tag) # {}
       THEN MostCommonVariants(response_str, target_tag)
       ELSE {NoTag}

\* lines 215-221: the first opening tag that begins with actual_tag
OpeningMatch(text, actual_tag) ==
    LET hits == {i \in 1..Len(text) :
                   /\ text[i] \in OpenTags
                   /\ StartsWith(NameChars[TagName[text[i]]], NameChars[actual_tag])}
    IN IF hits = {} THEN 0 ELSE CHOOSE i \in hits : \A j \in hits : i <= j

\* lines 224-232
possible_closing_tags(actual_tag, target_tag) ==
    {CloseTag(actual_tag), CloseTag(target_tag)}
      \cup {CloseTag(TyposOf[target_tag][i]) : i \in 1..Len(TyposOf[target_tag])}

\* the extraction with the tag found, its content not stripped
ExtractUnstripped(response_str, actual_tag, target_tag) ==
    LET start_index == FindFrom(response_str, OpenTag(actual_tag), 1)
        end_index == FindFrom(response_str, CloseTag(actual_tag), 1)
    IN IF start_index # 0 /\ end_index # 0
       THEN SubSeq(response_str, start_index + 1, end_index - 1)
       ELSE NotFound

\* extract_content_with_mismatched_tags, lines 197-254
extract_content_with_mismatched_tags(response_str, actual_tag, target_tag) ==
    LET start_index == FindFrom(response_str, OpenTag(actual_tag), 1)
        end_index == FindFrom(response_str, CloseTag(actual_tag), 1)
        opening == OpeningMatch(response_str, actual_tag)
        ends == {FindFrom(response_str, closing_tag, opening + 1) :
                   closing_tag \in possible_closing_tags(actual_tag, target_tag)} \ {0}
    IN IF start_index # 0 /\ end_index # 0
       THEN Content(response_str, start_index, end_index)
       ELSE IF opening = 0 THEN NotFound
       ELSE IF ends = {} THEN NotFound
       ELSE Content(response_str, opening, CHOOSE e \in ends : \A f \in ends : e <= f)

\* tutor-app parsers.py parse_simple_xml_tag, lines 153-195: the values it
\* may return
tutor_parse_simple_xml_tag(response_str, tag_name) ==
    LET start_index == FindFrom(response_str, OpenTag(tag_name), 1)
        end_index == FindFrom(response_str, CloseTag(tag_name), 1)
    IN IF start_index # 0 /\ end_index # 0
       THEN {Content(response_str, start_index, end_index)}
       ELSE {IF actual_tag = NoTag THEN NotFound
             ELSE extract_content_with_mismatched_tags(response_str, actual_tag, tag_name) :
               actual_tag \in find_best_tag_match(response_str, tag_name)}

\* the length of the texts examined
MaxTextLen == 5

\* the tag looked for and the tag names of the texts
TargetTag == "notes"

TextNames == {"notes", "notess", "notas", "notes_v2"}

TextTokens == {OpenTag(n) : n \in TextNames} \cup {CloseTag(n) : n \in TextNames} \cup {" ", "x"}

ExtractTexts == UNION {[1..n -> TextTokens] : n \in 0..MaxTextLen}

\* the length of the inner texts wrapped in a typo of a tag
MaxInnerLen == 2

\* the inner texts a tag of the table may wrap: whitespace, a letter and
\* tags of the canonical name
InnerTexts(canonical) ==
    UNION {[1..n -> {" ", "x", OpenTag(canonical), CloseTag(canonical)}] : n \in 0..MaxInnerLen}

Wrapped(tag, inner) == <<OpenTag(tag)>> \o inner \o <<CloseTag(tag)>>

\* the labels of the section tags of the texts examined
MaxLabel == 2

SectionLabels == 1..MaxLabel

\* f"<section_{n}>" and f"</section_{n}>"
SectionOpen == [n \in SectionLabels |-> "<section_" \o ToString(n) \o ">"]

SectionClose == [n \in SectionLabels |-> "</section_" \o ToString(n) \o ">"]

SectionOpenTags == {SectionOpen[n] : n \in SectionLabels}

SectionTags == SectionOpenTags \cup {SectionClose[n] : n \in SectionLabels}

\* int(match.group(1)), line 239
SectionNum == [t \in SectionOpenTags |-> CHOOSE n \in SectionLabels : SectionOpen[n] = t]

\* re.sub(r'</?section_\d+>', '', section_content), line 260
RECURSIVE RemoveSectionTags(_)
RemoveSectionTags(s) ==
    IF s = <<>> THEN <<>>
    ELSE (IF Head(s) \in SectionTags THEN <<>> ELSE <<Head(s)>>) \o RemoveSectionTags(Tail(s))

\* lines 233-234: the positions of the opening tags, in order
RECURSIVE SectionMatches(_, _)
SectionMatches(content, from) ==
    IF from > Len(content) THEN <<>>
    ELSE (IF content[from] \in SectionOpenTags THEN <<from>> ELSE <<>>)
         \o SectionMatches(content, from + 1)

\* lines 242-257: the content of the section opened by match number i, up
\* to its closing tag, or without one up to the next opening tag or the end
SectionContent(content, section_matches, i) ==
    LET start == section_matches[i]
        closing_pos == FindFrom(content, SectionClose[SectionNum[content[start]]], start + 1)
    IN IF closing_pos # 0
       THEN Strip(SubSeq(content, start + 1, closing_pos - 1))
       ELSE IF i + 1 <= Len(section_matches)
       THEN Strip(SubSeq(content, start + 1, section_matches[i + 1] - 1))
       ELSE Strip(SubSeq(content, start + 1, Len(content)))

\* the number of a section that keeps the label of its tag
SectionNumberFromLabel(sections, section_num) == section_num

\* line 264: 'section_number': len(sections) + 1
SectionNumber(sections, section_num) == Len(sections) + 1

\* lines 238-267, from match number i on, sections holding those appended
RECURSIVE SectionsFrom(_, _, _, _)
SectionsFrom(content, section_matches, i, sections) ==
    IF i > Len(section_matches) THEN sections
    ELSE LET section_content ==
               Strip(RemoveSectionTags(SectionContent(content, section_matches, i)))
         IN SectionsFrom(content, section_matches, i + 1,
                         IF section_content # <<>>
                         THEN Append(sections,
                                     [section_number |->
                                        SectionNumber(sections,
                                                      SectionNum[content[section_matches[i]]]),
                                      content |-> section_content])
                         ELSE sections)

\* _parse_sections_intelligently, lines 214-273
parse_sections_intelligently(content) ==
    SectionsFrom(content, SectionMatches(content, 1), 1, <<>>)

\* the length of the blocks of sections examined
MaxBlockLen == 5

SectionTokens == SectionTags \cup {" ", "A", "B"}

SectionBlocks == UNION {[1..n -> SectionTokens] : n \in 0..MaxBlockLen}

\* the stripped texts of a boolean tag in the responses examined, "" for
\* a tag that is missing or blank
BooleanTokens ==
    {"", "yes", "Yes", "YES", "no", "No", "sí", "SÍ", "si", "true", "True", "false",
     "False", "1", "0", "maybe", "verdadero", "y", "correct"}

\* str.lower() on these texts
Lower ==
    [t \in BooleanTokens |->
       IF t \in {"Yes", "YES"} THEN "yes"
       ELSE IF t = "No" THEN "no"
       ELSE IF t = "SÍ" THEN "sí"
       ELSE IF t = "True" THEN "true"
       ELSE IF t = "False" THEN "false"
       ELSE t]

\* parse_answer_evaluation lines 777 and 783
AcceptedTokens == {"yes", "no", "sí", "si", "true", "false", "1", "0"}

AffirmativeTokens == {"yes", "sí", "si", "true", "1"}

\* a parser that returns no record
Rejected == [accepted |-> FALSE, boolean |-> FALSE]

\* parse_answer_evaluation, lines 744-792, on a response whose is_correct
\* tag holds token (a response with that tag is longer than 10 characters)
\* and whose feedback tag has text or not
parse_answer_evaluation(token, others_present) ==
    IF token = "" THEN Rejected
    ELSE IF ~others_present THEN Rejected
    ELSE IF Lower[token] \notin AcceptedTokens THEN Rejected
    ELSE [accepted |-> TRUE, boolean |-> Lower[token] \in AffirmativeTokens]

\* parse_challenge_feedback, lines 795-855, on a challenge_feedback block
\* whose ready_to_submit tag holds token and whose other five tags have
\* text or not
parse_challenge_feedback(token, others_present) ==
    IF token = "" \/ ~others_present THEN Rejected
    ELSE [accepted |-> TRUE, boolean |-> Lower[token] = "yes"]

\* _parse_true_false_questions, lines 566-585, on one question block whose
\* answer tag holds token and whose text tag has text or not
parse_true_false_question(token, others_present) ==
    IF others_present /\ token # "" 
    THEN [accepted |-> TRUE, boolean |-> Lower[token] = "true"]
    ELSE Rejected

BooleanParsers == {"parse_answer_evaluation", "parse_challenge_feedback",
                   "_parse_true_false_questions"}

(***************************************************************************)
(* tutor-app: the report generation session, generate_student_report       *)
(* (ollama_service.py lines 186-244) with check_report_requirements and    *)
(* merge_report_sections (parsers.py).  A report maps each section to its  *)
(* text: 0 for a section the report lacks, and n for the text the n-th     *)
(* generate call gave that section (parse_student_report stores only       *)
(* non-empty stripped strings).  The session uses the variables of the     *)
(* other sessions, last_outcome holding the result of self.generate.       *)
(***************************************************************************)
\* MAX_RETRIES, the default of self.max_retries
max_retries == 3

\* parse_student_report returns None with fewer required sections
min_present_sections == 2

required_sections ==
    {"executive_summary", "findings", "progression", "recommendations", "priority_focus"}

ReportSections == required_sections \cup {"notes"}

\* final_result while it is None
NoReport == [present |-> FALSE, sections |-> [s \in ReportSections |-> 0]]

\* what self.generate returned when it failed or its parser returned None
FailedGeneration == [success |-> FALSE, parsed |-> NoReport.sections]

\* parse_student_report, lines 349-425: the reports the parser can return
\* for the response of generate call number call
ParsedReports(call) ==
    {r \in [ReportSections -> {0, call}] :
        Cardinality({s \in required_sections : r[s] # 0}) >= min_present_sections}

\* check_report_requirements, lines 426-446
check_report_requirements(report_data) ==
    {section \in required_sections : report_data[section] = 0}

MergeEverySection(existing_report, new_report, missing_sections) ==
    [section \in ReportSections |->
        IF new_report[section] # 0 THEN new_report[section]
        ELSE existing_report[section]]

\* merge_report_sections, lines 448-465
merge_report_sections(existing_report, new_report, missing_sections) ==
    [section \in ReportSections |->
        IF section \in missing_sections /\ new_report[section] # 0
        THEN new_report[section]
        ELSE existing_report[section]]

\* lines 227-244: the loop is left; the call succeeds unless final_result
\* is None
ReportReturns(report) ==
    /\ session_pc' = "returned"
    /\ exit_code' = IF report.present THEN "success" ELSE "failure"

\* lines 203-206: the result of self.generate is no success or holds no
\* parsed report
report_attempt_failed ==
    /\ session = "report"
    /\ session_pc = "loop"
    /\ generate_calls' = generate_calls + 1
    /\ last_outcome' = FailedGeneration
    /\ generation_attempt' = generation_attempt + 1
    /\ IF generation_attempt + 1 <= max_retries
       THEN UNCHANGED <<session_pc, exit_code>>
       ELSE ReportReturns(final_result)
    /\ UNCHANGED <<session, final_result, registry, queue_vars, fn_call, service_vars>>

\* lines 208-233 for a parsed report: the first one becomes final_result,
\* a later one is merged for the sections missing before the merge; the
\* loop is left once no required section is missing
report_attempt ==
    /\ session = "report"
    /\ session_pc = "loop"
    /\ generate_calls' = generate_calls + 1
    /\ \E parsed \in ParsedReports(generate_calls + 1) :
       \E missing_before_merge \in {check_report_requirements(final_result.sections)} :
         /\ last_outcome' = [success |-> TRUE, parsed |-> parsed]
         /\ IF final_result.present /\ missing_before_merge = {}
            THEN /\ UNCHANGED <<final_result, generation_attempt>>
                 /\ ReportReturns(final_result)
            ELSE \E merged \in
                     {[present |-> TRUE,
                       sections |-> IF final_result.present
                                    THEN merge_report_sections(final_result.sections,
                                                               parsed, missing_before_merge)
                                    ELSE parsed]} :
                   /\ final_result' = merged
                   /\ IF check_report_requirements(merged.sections) = {}
                      THEN /\ UNCHANGED generation_attempt
                           /\ ReportReturns(merged)
                      ELSE /\ generation_attempt' = generation_attempt + 1
                           /\ IF generation_attempt + 1 <= max_retries
                              THEN UNCHANGED <<session_pc, exit_code>>
                              ELSE ReportReturns(merged)
    /\ UNCHANGED <<session, registry, queue_vars, fn_call, service_vars>>

(***************************************************************************)
(* Specifications                                                          *)
(***************************************************************************)
QueueInit ==
    /\ queue_created = FALSE
    /\ feedback_queue = <<>>
    /\ task_results = <<>>
    /\ feedback_worker_task = 0
    /\ model_service = None
    /\ workers = [w \in WorkerIds |-> NoWorker]
    /\ threads = {}
    /\ stop_call = 0
    /\ uuid_count = 0
    /\ clock = 0
    /\ create_outcome = None
    /\ session = "none"
    /\ session_pc = "idle"
    /\ generation_attempt = 1
    /\ final_result = NoResult("none")
    /\ generate_calls = 0
    /\ last_outcome = None
    /\ registry = <<>>
    /\ exit_code = None
    /\ progress = EmptyProgress
    /\ accessed = {}
    /\ rejected_challenges = {}
    /\ challenges_registry = {}
    /\ generations = [c \in ContentIds |-> [d \in DifficultySet |-> 0]]
    /\ service_calls = [k \in ServiceCallIds |-> NoServiceCall]
    /\ held_locks = {}
    /\ fn_call = NoCall

SessionInit ==
    /\ session \in {"questions", "challenges"}
    /\ session_pc = "loop"
    /\ generation_attempt = 1
    /\ final_result = NoResult(session)
    /\ generate_calls = 0
    /\ last_outcome = None
    /\ registry = <<>>
    /\ exit_code = None
    /\ progress = EmptyProgress
    /\ accessed = {}
    /\ rejected_challenges = {}
    /\ challenges_registry = {}
    /\ generations = [c \in ContentIds |-> [d \in DifficultySet |-> 0]]
    /\ service_calls = [k \in ServiceCallIds |-> NoServiceCall]
    /\ held_locks = {}
    /\ fn_call = NoCall
    /\ queue_created = FALSE
    /\ feedback_queue = <<>>
    /\ task_results = <<>>
    /\ feedback_worker_task = 0
    /\ model_service = None
    /\ workers = [w \in WorkerIds |-> NoWorker]
    /\ threads = {}
    /\ stop_call = 0
    /\ uuid_count = 0
    /\ clock = 0
    /\ create_outcome = None

WorkerStep ==
    \/ \E w \in WorkerIds : worker_get(w)
    \/ \E w \in WorkerIds : worker_resume(w)
    \/ \E w \in WorkerIds : worker_cancelled(w)
    \/ \E t \in TaskIds : generate_returns(t)

QueueNext ==
    \/ initialize_feedback_queue
    \/ stop_feedback_queue_cancel
    \/ stop_feedback_queue_finally
    \/ create_feedback_task
    \/ WorkerStep

\* the feedback queue under every interleaving of its callers
QueueSpec == QueueInit /\ [][QueueNext]_vars

SessionNext ==
    \/ generate_raises
    \/ attempt_failed
    \/ questions_attempt
    \/ challenges_attempt

\* one question or challenge session under every sequence of generator outcomes
SessionSpec == SessionInit /\ [][SessionNext]_vars

\* the numbers of records per question type of an accumulator in which no
\* bucket exceeds its quota
AccumulatorsWithinQuota ==
    {c \in QuestionBatches :
       \A b \in Buckets :
         SumLen([t \in QuestionTypeSet |-> [i \in 1..c[t] |-> i]], requirements_map[b])
           <= requirements[b]}

\* a call of merge_questions or merge_challenges as main() makes it: an
\* accumulator, a parsed response, and the deficits of the accumulator
MergeInit ==
    /\ fn_call \in {[fn |-> "merge_questions", returned |-> FALSE,
                   existing_result |-> ParsedQuestions(e, 1),
                   new_result |-> ParsedQuestions(n, 2),
                   value |-> NoResult("questions")] :
                     e \in AccumulatorsWithinQuota, n \in QuestionBatches}
            \cup {[fn |-> "merge_challenges", returned |-> FALSE,
                    existing_result |-> ParsedChallenges(e, 1, 0),
                    new_result |-> ParsedChallenges(n, 2, 0),
                    value |-> NoResult("challenges")] :
                      e \in 1..required_challenges, n \in 1..MaxChallengeBatch}
    /\ queue_created = FALSE
    /\ feedback_queue = <<>>
    /\ task_results = <<>>
    /\ feedback_worker_task = 0
    /\ model_service = None
    /\ workers = [w \in WorkerIds |-> NoWorker]
    /\ threads = {}
    /\ stop_call = 0
    /\ uuid_count = 0
    /\ clock = 0
    /\ create_outcome = None
    /\ session = "none"
    /\ session_pc = "idle"
    /\ generation_attempt = 1
    /\ final_result = NoResult("none")
    /\ generate_calls = 0
    /\ last_outcome = None
    /\ registry = <<>>
    /\ exit_code = None
    /\ progress = EmptyProgress
    /\ accessed = {}
    /\ rejected_challenges = {}
    /\ challenges_registry = {}
    /\ generations = [c \in ContentIds |-> [d \in DifficultySet |-> 0]]
    /\ service_calls = [k \in ServiceCallIds |-> NoServiceCall]
    /\ held_locks = {}

\* generate_questions.py lines 414 and 420: the deficits are computed from
\* the accumulator and merge_questions is called with them
merge_questions_call ==
    /\ fn_call.fn = "merge_questions"
    /\ ~fn_call.returned
    /\ fn_call' = [fn_call EXCEPT !.returned = TRUE,
                            !.value = merge_questions(fn_call.existing_result, fn_call.new_result,
                                                      MissingOf(fn_call.existing_result))]
    /\ UNCHANGED <<queue_vars, session_vars, service_vars>>

\* generate_challenges.py lines 425-426
merge_challenges_call ==
    /\ fn_call.fn = "merge_challenges"
    /\ ~fn_call.returned
    /\ fn_call' = [fn_call EXCEPT !.returned = TRUE,
                            !.value = merge_challenges(fn_call.existing_result, fn_call.new_result,
                                                       MissingChallenges(fn_call.existing_result))]
    /\ UNCHANGED <<queue_vars, session_vars, service_vars>>

MergeNext ==
    \/ merge_questions_call
    \/ merge_challenges_call

\* one merge call for every accumulator within quota and every response
MergeSpec == MergeInit /\ [][MergeNext]_vars

\* one pass of the loop of generate_questions.main() that receives a parsed
\* response, for an accumulator within quota (left by an earlier pass)
PassInit ==
    /\ fn_call \in {[fn |-> "questions_pass", returned |-> FALSE,
                      final_result |-> ParsedQuestions(e, 1),
                      result |-> ParsedQuestions(n, 2),
                      value |-> NoResult("questions"), break |-> FALSE] :
                        e \in AccumulatorsWithinQuota, n \in QuestionBatches}
    /\ queue_created = FALSE
    /\ feedback_queue = <<>>
    /\ task_results = <<>>
    /\ feedback_worker_task = 0
    /\ model_service = None
    /\ workers = [w \in WorkerIds |-> NoWorker]
    /\ threads = {}
    /\ stop_call = 0
    /\ uuid_count = 0
    /\ clock = 0
    /\ create_outcome = None
    /\ session = "none"
    /\ session_pc = "idle"
    /\ generation_attempt = 1
    /\ final_result = NoResult("none")
    /\ generate_calls = 0
    /\ last_outcome = None
    /\ registry = <<>>
    /\ exit_code = None
    /\ progress = EmptyProgress
    /\ accessed = {}
    /\ rejected_challenges = {}
    /\ challenges_registry = {}
    /\ generations = [c \in ContentIds |-> [d \in DifficultySet |-> 0]]
    /\ service_calls = [k \in ServiceCallIds |-> NoServiceCall]
    /\ held_locks = {}

\* generate_questions.py lines 411-452: the accumulator after the pass and
\* whether the pass ends in one of the break statements
questions_pass_call ==
    /\ fn_call.fn = "questions_pass"
    /\ ~fn_call.returned
    /\ \E missing_before_merge \in {MissingOf(fn_call.final_result)} :
       \E merged \in {QuestionsPass(fn_call.final_result, fn_call.result,
                                     missing_before_merge)} :
         fn_call' = [fn_call EXCEPT !.returned = TRUE, !.value = merged,
                                    !.break = QuestionsBreak(merged)]
    /\ UNCHANGED <<queue_vars, session_vars, service_vars>>

PassNext == questions_pass_call

PassSpec == PassInit /\ [][PassNext]_vars

\* the registry entries earlier saves left behind
MaxStored == 2

SaveFunctions == {"save_questions_uuid", "save_challenges_uuid"}

SaveKind(fn) == IF fn = "save_questions_uuid" THEN "questions" ELSE "challenges"

TypeSetOf(kind) == {TypesOf(kind)[i] : i \in 1..Len(TypesOf(kind))}

\* the "questions" ("challenges") object of a registry file that earlier
\* calls of the save function wrote, in insertion order
StoredRegistries(kind) ==
    UNION {{[i \in 1..n |-> [uuid |-> i, type |-> ty[i], text |-> <<0, i>>]] :
              ty \in [1..n -> TypeSetOf(kind)]} : n \in 0..MaxStored}

\* the item files <uuid>.json written for the entries, by file name
ItemFiles(entries) ==
    [u \in {entries[i].uuid : i \in 1..Len(entries)} |->
       LET e == CHOOSE x \in {entries[i] : i \in 1..Len(entries)} : x.uuid = u IN
       [type |-> e.type, text |-> e.text]]

\* the directory before a save: registry entries, metadata total, item files
Stored(entries) ==
    [registry |-> entries, total |-> Len(entries), files |-> ItemFiles(entries)]

\* save_questions_uuid, lines 110-181, and save_challenges_uuid, lines
\* 197-259: the registry is loaded, every record of the accumulator gets an
\* item file and a registry entry under a new uuid, the metadata total is
\* set to the size of the registry object and the registry is written
save_uuid(store, result, kind) ==
    LET saved == SavedRegistry(store.registry, RecordsToSave(result.lists, TypesOf(kind)))
        added == SubSeq(saved, Len(store.registry) + 1, Len(saved))
    IN [registry |-> saved,
        total |-> Cardinality({saved[i].uuid : i \in 1..Len(saved)}),
        files |-> ItemFiles(added) @@ store.files]

\* a call of a save function as main() makes it after the loop, on the
\* directory earlier sessions left
SaveInit ==
    /\ fn_call \in {[fn |-> "save_questions_uuid", returned |-> FALSE,
                      store |-> Stored(r), result |-> ParsedQuestions(e, 1),
                      value |-> Stored(<<>>)] :
                        r \in StoredRegistries("questions"), e \in QuestionBatches}
            \cup {[fn |-> "save_challenges_uuid", returned |-> FALSE,
                    store |-> Stored(r), result |-> ParsedChallenges(e, 1, 0),
                    value |-> Stored(<<>>)] :
                      r \in StoredRegistries("challenges"), e \in 1..required_challenges}
    /\ queue_created = FALSE
    /\ feedback_queue = <<>>
    /\ task_results = <<>>
    /\ feedback_worker_task = 0
    /\ model_service = None
    /\ workers = [w \in WorkerIds |-> NoWorker]
    /\ threads = {}
    /\ stop_call = 0
    /\ uuid_count = 0
    /\ clock = 0
    /\ create_outcome = None
    /\ session = "none"
    /\ session_pc = "idle"
    /\ generation_attempt = 1
    /\ final_result = NoResult("none")
    /\ generate_calls = 0
    /\ last_outcome = None
    /\ registry = <<>>
    /\ exit_code = None
    /\ progress = EmptyProgress
    /\ accessed = {}
    /\ rejected_challenges = {}
    /\ challenges_registry = {}
    /\ generations = [c \in ContentIds |-> [d \in DifficultySet |-> 0]]
    /\ service_calls = [k \in ServiceCallIds |-> NoServiceCall]
    /\ held_locks = {}

\* generate_questions.py line 475 and generate_challenges.py line 451
save_uuid_call ==
    /\ fn_call.fn \in SaveFunctions
    /\ ~fn_call.returned
    /\ \E saved \in {save_uuid(fn_call.store, fn_call.result, SaveKind(fn_call.fn))} :
         fn_call' = [fn_call EXCEPT !.returned = TRUE, !.value = saved]
    /\ UNCHANGED <<queue_vars, session_vars, service_vars>>

SaveNext == save_uuid_call

\* one call of a save function for every stored registry and accumulator
SaveSpec == SaveInit /\ [][SaveNext]_vars

\* AutomaticQuestionsService before any generation
ServiceInit ==
    /\ progress = EmptyProgress
    /\ accessed = {}
    /\ rejected_challenges = {}
    /\ challenges_registry = {}
    /\ generations = [c \in ContentIds |-> [d \in DifficultySet |-> 0]]
    /\ service_calls = [k \in ServiceCallIds |-> NoServiceCall]
    /\ held_locks = {}
    /\ fn_call = NoCall
    /\ queue_created = FALSE
    /\ feedback_queue = <<>>
    /\ task_results = <<>>
    /\ feedback_worker_task = 0
    /\ model_service = None
    /\ workers = [w \in WorkerIds |-> NoWorker]
    /\ threads = {}
    /\ stop_call = 0
    /\ uuid_count = 0
    /\ clock = 0
    /\ create_outcome = None
    /\ session = "none"
    /\ session_pc = "idle"
    /\ generation_attempt = 1
    /\ final_result = NoResult("none")
    /\ generate_calls = 0
    /\ last_outcome = None
    /\ registry = <<>>
    /\ exit_code = None

ChallengeServiceNext ==
    \/ \E c \in ContentIds : content_accessed(c)
    \/ challenges_rejected
    \/ \E c \in ContentIds : trigger_challenge_generation(c)
    \/ check_challenge_exhaustion_and_regenerate
    \/ \E k \in ServiceCallIds : run_loads_registry(k)
    \/ \E k \in ServiceCallIds : run_writes_registry(k)
    \/ \E k \in ServiceCallIds : run_fails(k)
    \/ \E k \in ServiceCallIds : trigger_challenge_generation_resume(k)
    \/ \E k \in ServiceCallIds : check_challenge_exhaustion_resume(k)

\* the challenge generation of the service under every interleaving of its
\* callers, the generation processes and the student
ChallengeServiceSpec == ServiceInit /\ [][ChallengeServiceNext]_vars

QuestionServiceNext ==
    \/ \E c \in ContentIds : trigger_initial_questions(c)
    \/ \E c \in ContentIds : check_completion_and_progress(c)
    \/ \E k \in ServiceCallIds, code \in {"0", "1"} : questions_run_exits(k, code)
    \/ \E k \in ServiceCallIds : trigger_initial_questions_resume(k)
    \/ \E k \in ServiceCallIds : check_completion_and_progress_resume(k)

\* the question generation of the service under every interleaving of its
\* callers and the generation processes, for students who complete every
\* set of questions
QuestionServiceSpec == ServiceInit /\ [][QuestionServiceNext]_vars

\* a call of _parse_multiple_choice_questions on the question blocks of a
\* response
MultipleChoiceInit ==
    /\ fn_call \in {[fn |-> "_parse_multiple_choice_questions", returned |-> FALSE,
                      content |-> r, value |-> <<>>] : r \in Responses}
    /\ queue_created = FALSE
    /\ feedback_queue = <<>>
    /\ task_results = <<>>
    /\ feedback_worker_task = 0
    /\ model_service = None
    /\ workers = [w \in WorkerIds |-> NoWorker]
    /\ threads = {}
    /\ stop_call = 0
    /\ uuid_count = 0
    /\ clock = 0
    /\ create_outcome = None
    /\ session = "none"
    /\ session_pc = "idle"
    /\ generation_attempt = 1
    /\ final_result = NoResult("none")
    /\ generate_calls = 0
    /\ last_outcome = None
    /\ registry = <<>>
    /\ exit_code = None
    /\ progress = EmptyProgress
    /\ accessed = {}
    /\ rejected_challenges = {}
    /\ challenges_registry = {}
    /\ generations = [c \in ContentIds |-> [d \in DifficultySet |-> 0]]
    /\ service_calls = [k \in ServiceCallIds |-> NoServiceCall]
    /\ held_locks = {}

\* parse_questions line 430
parse_multiple_choice_call ==
    /\ fn_call.fn = "_parse_multiple_choice_questions"
    /\ ~fn_call.returned
    /\ fn_call' = [fn_call EXCEPT !.returned = TRUE,
                                  !.value = parse_multiple_choice_questions(fn_call.content)]
    /\ UNCHANGED <<queue_vars, session_vars, service_vars>>

MultipleChoiceNext == parse_multiple_choice_call

MultipleChoiceSpec == MultipleChoiceInit /\ [][MultipleChoiceNext]_vars

\* a call of parse_simple_xml_tag of the student app or of the tutor app
\* on a text
ExtractInit ==
    /\ fn_call \in {[fn |-> f, returned |-> FALSE, response_str |-> t,
                      tag_name |-> TargetTag, value |-> NotFound] :
                        f \in {"parse_simple_xml_tag", "tutor_parse_simple_xml_tag"},
                        t \in ExtractTexts}
    /\ queue_created = FALSE
    /\ feedback_queue = <<>>
    /\ task_results = <<>>
    /\ feedback_worker_task = 0
    /\ model_service = None
    /\ workers = [w \in WorkerIds |-> NoWorker]
    /\ threads = {}
    /\ stop_call = 0
    /\ uuid_count = 0
    /\ clock = 0
    /\ create_outcome = None
    /\ session = "none"
    /\ session_pc = "idle"
    /\ generation_attempt = 1
    /\ final_result = NoResult("none")
    /\ generate_calls = 0
    /\ last_outcome = None
    /\ registry = <<>>
    /\ exit_code = None
    /\ progress = EmptyProgress
    /\ accessed = {}
    /\ rejected_challenges = {}
    /\ challenges_registry = {}
    /\ generations = [c \in ContentIds |-> [d \in DifficultySet |-> 0]]
    /\ service_calls = [k \in ServiceCallIds |-> NoServiceCall]
    /\ held_locks = {}

parse_simple_xml_tag_call ==
    /\ fn_call.fn = "parse_simple_xml_tag"
    /\ ~fn_call.returned
    /\ fn_call' = [fn_call EXCEPT !.returned = TRUE,
                                  !.value = parse_simple_xml_tag(fn_call.response_str,
                                                                 fn_call.tag_name)]
    /\ UNCHANGED <<queue_vars, session_vars, service_vars>>

tutor_parse_simple_xml_tag_call ==
    /\ fn_call.fn = "tutor_parse_simple_xml_tag"
    /\ ~fn_call.returned
    /\ \E content \in tutor_parse_simple_xml_tag(fn_call.response_str, fn_call.tag_name) :
         fn_call' = [fn_call EXCEPT !.returned = TRUE, !.value = content]
    /\ UNCHANGED <<queue_vars, session_vars, service_vars>>

ExtractNext ==
    \/ parse_simple_xml_tag_call
    \/ tutor_parse_simple_xml_tag_call

ExtractSpec == ExtractInit /\ [][ExtractNext]_vars

\* the extraction of a canonical tag from an inner text wrapped in one of
\* its typos and from the same inner text wrapped in the canonical tag
TypoInit ==
    /\ fn_call \in UNION {{[fn |-> "tutor_parse_simple_xml_tag", returned |-> FALSE,
                             typo |-> COMMON_TAG_TYPOS[i][1],
                             tag_name |-> COMMON_TAG_TYPOS[i][2],
                             inner |-> t, value |-> NotFound, canonical_value |-> NotFound] :
                               t \in InnerTexts(COMMON_TAG_TYPOS[i][2])} :
                             i \in 1..Len(COMMON_TAG_TYPOS)}
    /\ queue_created = FALSE
    /\ feedback_queue = <<>>
    /\ task_results = <<>>
    /\ feedback_worker_task = 0
    /\ model_service = None
    /\ workers = [w \in WorkerIds |-> NoWorker]
    /\ threads = {}
    /\ stop_call = 0
    /\ uuid_count = 0
    /\ clock = 0
    /\ create_outcome = None
    /\ session = "none"
    /\ session_pc = "idle"
    /\ generation_attempt = 1
    /\ final_result = NoResult("none")
    /\ generate_calls = 0
    /\ last_outcome = None
    /\ registry = <<>>
    /\ exit_code = None
    /\ progress = EmptyProgress
    /\ accessed = {}
    /\ rejected_challenges = {}
    /\ challenges_registry = {}
    /\ generations = [c \in ContentIds |-> [d \in DifficultySet |-> 0]]
    /\ service_calls = [k \in ServiceCallIds |-> NoServiceCall]
    /\ held_locks = {}

typo_and_canonical_call ==
    /\ fn_call.fn = "tutor_parse_simple_xml_tag"
    /\ ~fn_call.returned
    /\ \E from_typo \in tutor_parse_simple_xml_tag(Wrapped(fn_call.typo, fn_call.inner),
                                                     fn_call.tag_name) :
       \E from_canonical \in tutor_parse_simple_xml_tag(Wrapped(fn_call.tag_name, fn_call.inner),
                                                          fn_call.tag_name) :
         fn_call' = [fn_call EXCEPT !.returned = TRUE, !.value = from_typo,
                                    !.canonical_value = from_canonical]
    /\ UNCHANGED <<queue_vars, session_vars, service_vars>>

TypoNext == typo_and_canonical_call

TypoSpec == TypoInit /\ [][TypoNext]_vars

\* a call of _parse_sections_intelligently on the content of a textbook or
\* story block
SectionsInit ==
    /\ fn_call \in {[fn |-> "_parse_sections_intelligently", returned |-> FALSE,
                      content |-> c, value |-> <<>>] : c \in SectionBlocks}
    /\ queue_created = FALSE
    /\ feedback_queue = <<>>
    /\ task_results = <<>>
    /\ feedback_worker_task = 0
    /\ model_service = None
    /\ workers = [w \in WorkerIds |-> NoWorker]
    /\ threads = {}
    /\ stop_call = 0
    /\ uuid_count = 0
    /\ clock = 0
    /\ create_outcome = None
    /\ session = "none"
    /\ session_pc = "idle"
    /\ generation_attempt = 1
    /\ final_result = NoResult("none")
    /\ generate_calls = 0
    /\ last_outcome = None
    /\ registry = <<>>
    /\ exit_code = None
    /\ progress = EmptyProgress
    /\ accessed = {}
    /\ rejected_challenges = {}
    /\ challenges_registry = {}
    /\ generations = [c \in ContentIds |-> [d \in DifficultySet |-> 0]]
    /\ service_calls = [k \in ServiceCallIds |-> NoServiceCall]
    /\ held_locks = {}

\* parse_educational_textbook line 301, parse_educational_story
parse_sections_call ==
    /\ fn_call.fn = "_parse_sections_intelligently"
    /\ ~fn_call.returned
    /\ fn_call' = [fn_call EXCEPT !.returned = TRUE,
                                  !.value = parse_sections_intelligently(fn_call.content)]
    /\ UNCHANGED <<queue_vars, session_vars, service_vars>>

SectionsNext == parse_sections_call

SectionsSpec == SectionsInit /\ [][SectionsNext]_vars

\* a call of one of the parsers of a record with a boolean field
BooleanInit ==
    /\ fn_call \in {[fn |-> f, returned |-> FALSE, token |-> t, others_present |-> o,
                      value |-> Rejected] :
                        f \in BooleanParsers, t \in BooleanTokens, o \in BOOLEAN}
    /\ queue_created = FALSE
    /\ feedback_queue = <<>>
    /\ task_results = <<>>
    /\ feedback_worker_task = 0
    /\ model_service = None
    /\ workers = [w \in WorkerIds |-> NoWorker]
    /\ threads = {}
    /\ stop_call = 0
    /\ uuid_count = 0
    /\ clock = 0
    /\ create_outcome = None
    /\ session = "none"
    /\ session_pc = "idle"
    /\ generation_attempt = 1
    /\ final_result = NoResult("none")
    /\ generate_calls = 0
    /\ last_outcome = None
    /\ registry = <<>>
    /\ exit_code = None
    /\ progress = EmptyProgress
    /\ accessed = {}
    /\ rejected_challenges = {}
    /\ challenges_registry = {}
    /\ generations = [c \in ContentIds |-> [d \in DifficultySet |-> 0]]
    /\ service_calls = [k \in ServiceCallIds |-> NoServiceCall]
    /\ held_locks = {}

parse_answer_evaluation_call ==
    /\ fn_call.fn = "parse_answer_evaluation"
    /\ ~fn_call.returned
    /\ fn_call' = [fn_call EXCEPT !.returned = TRUE,
                                  !.value = parse_answer_evaluation(fn_call.token,
                                                                    fn_call.others_present)]
    /\ UNCHANGED <<queue_vars, session_vars, service_vars>>

parse_challenge_feedback_call ==
    /\ fn_call.fn = "parse_challenge_feedback"
    /\ ~fn_call.returned
    /\ fn_call' = [fn_call EXCEPT !.returned = TRUE,
                                  !.value = parse_challenge_feedback(fn_call.token,
                                                                     fn_call.others_present)]
    /\ UNCHANGED <<queue_vars, session_vars, service_vars>>

parse_true_false_call ==
    /\ fn_call.fn = "_parse_true_false_questions"
    /\ ~fn_call.returned
    /\ fn_call' = [fn_call EXCEPT !.returned = TRUE,
                                  !.value = parse_true_false_question(fn_call.token,
                                                                      fn_call.others_present)]
    /\ UNCHANGED <<queue_vars, session_vars, service_vars>>

BooleanNext ==
    \/ parse_answer_evaluation_call
    \/ parse_challenge_feedback_call
    \/ parse_true_false_call

BooleanSpec == BooleanInit /\ [][BooleanNext]_vars

\* a call of get_task_status on a table of task records
StatusInit ==
    /\ fn_call \in UNION {{[fn |-> "get_task_status", returned |-> FALSE, records |-> tr,
                             task_id |-> t,
                             value |-> [status |-> None, queue_position |-> 0,
                                        estimated_wait_minutes |-> [num |-> 0, den |-> 1]]] :
                               tr \in ResultTables(n), t \in 1..n} : n \in 1..MaxTasks}
    /\ queue_created = FALSE
    /\ feedback_queue = <<>>
    /\ task_results = <<>>
    /\ feedback_worker_task = 0
    /\ model_service = None
    /\ workers = [w \in WorkerIds |-> NoWorker]
    /\ threads = {}
    /\ stop_call = 0
    /\ uuid_count = 0
    /\ clock = 0
    /\ create_outcome = None
    /\ session = "none"
    /\ session_pc = "idle"
    /\ generation_attempt = 1
    /\ final_result = NoResult("none")
    /\ generate_calls = 0
    /\ last_outcome = None
    /\ registry = <<>>
    /\ exit_code = None
    /\ progress = EmptyProgress
    /\ accessed = {}
    /\ rejected_challenges = {}
    /\ challenges_registry = {}
    /\ generations = [c \in ContentIds |-> [d \in DifficultySet |-> 0]]
    /\ service_calls = [k \in ServiceCallIds |-> NoServiceCall]
    /\ held_locks = {}

get_task_status_call ==
    /\ fn_call.fn = "get_task_status"
    /\ ~fn_call.returned
    /\ fn_call' = [fn_call EXCEPT !.returned = TRUE,
                                  !.value = get_task_status(fn_call.records, fn_call.task_id)]
    /\ UNCHANGED <<queue_vars, session_vars, service_vars>>

StatusNext == get_task_status_call

StatusSpec == StatusInit /\ [][StatusNext]_vars

CleanupNext ==
    \/ initialize_feedback_queue
    \/ create_feedback_task
    \/ time_passes
    \/ cleanup_old_tasks
    \/ \E w \in WorkerIds : worker_get_recorded(w)
    \/ \E w \in WorkerIds : worker_resume_recorded(w)
    \/ \E t \in TaskIds : generate_returns(t)

\* the queue in service with the periodic sweep of its records
CleanupSpec == QueueInit /\ [][CleanupNext]_vars

\* create_feedback_task called once initialize_feedback_queue has run
create_feedback_task_on_queue ==
    /\ queue_created
    /\ create_feedback_task

InitializedQueueNext ==
    \/ initialize_feedback_queue
    \/ stop_feedback_queue_cancel
    \/ stop_feedback_queue_finally
    \/ create_feedback_task_on_queue
    \/ WorkerStep

\* the feedback queue under every interleaving of its callers, tasks being
\* submitted only once the queue exists
InitializedQueueSpec == QueueInit /\ [][InitializedQueueNext]_vars

\* a call of generate_student_report at its loop
ReportInit ==
    /\ session = "report"
    /\ session_pc = "loop"
    /\ generation_attempt = 1
    /\ final_result = NoReport
    /\ generate_calls = 0
    /\ last_outcome = FailedGeneration
    /\ registry = <<>>
    /\ exit_code = None
    /\ fn_call = NoCall
    /\ queue_created = FALSE
    /\ feedback_queue = <<>>
    /\ task_results = <<>>
    /\ feedback_worker_task = 0
    /\ model_service = None
    /\ workers = [w \in WorkerIds |-> NoWorker]
    /\ threads = {}
    /\ stop_call = 0
    /\ uuid_count = 0
    /\ clock = 0
    /\ create_outcome = None
    /\ progress = EmptyProgress
    /\ accessed = {}
    /\ rejected_challenges = {}
    /\ challenges_registry = {}
    /\ generations = [c \in ContentIds |-> [d \in DifficultySet |-> 0]]
    /\ service_calls = [k \in ServiceCallIds |-> NoServiceCall]
    /\ held_locks = {}

ReportNext ==
    \/ report_attempt_failed
    \/ report_attempt

\* one report session under every sequence of generator outcomes
ReportSpec == ReportInit /\ [][ReportNext]_vars

\* the scheduling the event loop and the thread pool guarantee: a worker
\* that can run does run, a generate call ends, a stop call whose worker
\* is done resumes
WorkerFairness ==
    /\ \A w \in WorkerIds : WF_vars(worker_get(w))
    /\ \A w \in WorkerIds : WF_vars(worker_resume(w))
    /\ \A t \in TaskIds : WF_vars(generate_returns(t))

FairQueueSpec ==
    /\ QueueSpec
    /\ WorkerFairness
    /\ \A w \in WorkerIds : WF_vars(worker_cancelled(w))
    /\ WF_vars(stop_feedback_queue_finally)

RestartNext ==
    \/ initialize_feedback_queue_returns
    \/ stop_feedback_queue_begins
    \/ stop_feedback_queue_finally
    \/ create_feedback_task
    \/ WorkerStep

\* the feedback queue stopped and started again, under the scheduling of
\* FairQueueSpec
RestartSpec ==
    /\ QueueInit
    /\ [][RestartNext]_vars
    /\ WorkerFairness
    /\ \A w \in WorkerIds : WF_vars(worker_cancelled(w))
    /\ WF_vars(stop_feedback_queue_finally)

QueueRunNext ==
    \/ initialize_feedback_queue
    \/ create_feedback_task
    \/ \E w \in WorkerIds : worker_get(w)
    \/ \E w \in WorkerIds : worker_resume(w)
    \/ \E t \in TaskIds : generate_returns(t)

\* the queue in service, from start-up on and with no stop_feedback_queue call
QueueRunSpec == QueueInit /\ [][QueueRunNext]_vars /\ WorkerFairness

(***************************************************************************)
(* Properties                                                              *)
(***************************************************************************)
Terminal == {TASK_STATUS_COMPLETED, TASK_STATUS_ERROR}

Processing == {t \in DOMAIN task_results : task_results[t].status = TASK_STATUS_PROCESSING}

\* C1: at most one task is PROCESSING and at most one generate call started
\* by the queue is in flight, in every reachable state
C1_OneGenerationAtATime ==
    /\ Cardinality(Processing) <= 1
    /\ Cardinality(threads) <= 1

\* C2: a task's status changes only PENDING -> PROCESSING and PROCESSING ->
\* COMPLETED or ERROR, and the record of a COMPLETED or ERROR task never
\* changes again
C2_TaskLifecycle ==
    [][\A t \in (DOMAIN task_results) \cap (DOMAIN task_results') :
         /\ LET old == task_results[t].status
                new == task_results'[t].status IN
            \/ new = old
            \/ old = TASK_STATUS_PENDING /\ new = TASK_STATUS_PROCESSING
            \/ old = TASK_STATUS_PROCESSING /\ new \in Terminal
         /\ task_results[t].status \in Terminal => task_results'[t] = task_results[t]]_vars

\* both terminal statuses have been reached through PROCESSING
C2_Witness ==
    \E a, b \in DOMAIN task_results :
        /\ task_results[a].status = TASK_STATUS_COMPLETED
        /\ task_results[b].status = TASK_STATUS_ERROR
        /\ task_results[a].started_at # None
        /\ task_results[b].started_at # None

\* C3: a task that is PROCESSING eventually becomes COMPLETED or ERROR,
\* also when stop_feedback_queue cancels the worker during the generate call
C3_ProcessingEnds ==
    \A t \in TaskIds :
        (StatusOf(t) = TASK_STATUS_PROCESSING) ~> (StatusOf(t) \in Terminal)

\* C8: a create_feedback_task call that finds the queue at capacity raises
\* the "try again later" error and leaves task_results and the queue as
\* they were, and the queue never holds more than its capacity
C8_QueueFullRejects ==
    /\ [](Len(feedback_queue) <= QueueMaxSize)
    /\ [][(uuid_count' # uuid_count /\ Len(feedback_queue) = QueueMaxSize)
            => /\ task_results' = task_results
               /\ feedback_queue' = feedback_queue
               /\ create_outcome' = "queue_full"]_vars

\* a call was refused with the queue at capacity
C8_Witness ==
    /\ create_outcome = "queue_full"
    /\ Len(feedback_queue) = QueueMaxSize

\* C9: when processing a task raises, the task becomes ERROR with the
\* message recorded, the worker stays in its loop and takes the next
\* waiting task, and every task waiting behind a failed one is processed
C9_ErrorKeepsWorker ==
    /\ [][\A w \in WorkerIds :
            (/\ workers[w].pc = "resume"
             /\ ~workers[w].cancel
             /\ workers[w].outcome # "parsed"
             /\ workers'[w].pc # "resume")
            => /\ task_results'[workers[w].task].status = TASK_STATUS_ERROR
               /\ task_results'[workers[w].task].error = ErrorMessage(workers[w].outcome)
               /\ workers'[w].pc \in {"get", "to_thread"}
               /\ feedback_queue # <<>> =>
                     /\ workers'[w].pc = "to_thread"
                     /\ workers'[w].task = Head(feedback_queue)]_vars
    /\ \A t, u \in TaskIds :
          (StatusOf(t) = TASK_STATUS_ERROR /\ u \in Queued) ~> (StatusOf(u) \in Terminal)

\* a task failed while another waited, and the waiting one was processed
C9_Witness ==
    \E t, u \in DOMAIN task_results :
        /\ t < u
        /\ task_results[t].status = TASK_STATUS_ERROR
        /\ task_results[u].status = TASK_STATUS_COMPLETED

\* C10: of two accepted tasks the later one never leaves PENDING while the
\* earlier one is still PENDING (a task waiting in the queue has every
\* later task still PENDING)
C10_Fifo ==
    \A a \in Queued : \A b \in DOMAIN task_results :
        b > a => task_results[b].status = TASK_STATUS_PENDING

\* the earlier task was processed and the later one followed it
C10_Witness ==
    \E a, b \in DOMAIN task_results :
        /\ a < b
        /\ task_results[a].status \in Terminal
        /\ task_results[b].status = TASK_STATUS_PROCESSING

Pending == {t \in DOMAIN task_results : task_results[t].status = TASK_STATUS_PENDING}

\* C11: a task waiting in the queue reports as queue_position 1 + the number
\* of PENDING tasks enqueued before it (its place in the queue), and no two
\* PENDING tasks report the same position
C11_QueuePosition ==
    /\ \A i \in 1..Len(feedback_queue) : QueuePositionOf(feedback_queue[i]) = i
    /\ \A t, u \in Pending : t # u => QueuePositionOf(t) # QueuePositionOf(u)

(***************************************************************************)
(* Properties of the generation sessions                                   *)
(***************************************************************************)
SessionEnded == session_pc = "returned"

\* C4: when a session has terminated every bucket holds at most its quota
C4_QuotaCeiling ==
    (SessionEnded /\ final_result.present) =>
        IF session = "questions"
        THEN \A b \in Buckets : CurrentCount(final_result, b) <= requirements[b]
        ELSE Len(final_result.lists["challenges"]) <= required_challenges

\* C5: a session that stopped with no bucket in deficit holds exactly the
\* sum of the quota: 8 questions, 5 challenges
C5_SuccessTotalExact ==
    (SessionEnded /\ final_result.present) =>
        IF session = "questions"
        THEN ~NonEmptyDict(MissingOf(final_result)) => final_result.total = total_limit
        ELSE MissingChallenges(final_result) = 0
                => final_result.total = required_challenges

\* C6: a session makes at most 3 generate calls and has terminated once it
\* made the third, whatever the generator's outcomes
C6_AtMostThreeCalls ==
    /\ generate_calls <= max_attempts
    /\ generate_calls = max_attempts => SessionEnded

\* a session ended after three calls with records accumulated and the
\* quota unmet
C6_Witness ==
    /\ SessionEnded
    /\ generate_calls = max_attempts
    /\ final_result.present
    /\ session = "questions"
    /\ NonEmptyDict(MissingOf(final_result))

\* C7: a generate call that raises or returns a non-dict response is not
\* fatal: the attempt counter is incremented, the next attempt runs if one
\* remains, the accumulated records are kept and they are persisted when
\* the session ends
C7_AttemptFailureNonFatal ==
    [][(generate_calls' = generate_calls + 1 /\ last_outcome' \in {"raise", "non_dict"})
         => /\ generation_attempt' = generation_attempt + 1
            /\ final_result' = final_result
            /\ InLoop(generation_attempt') => session_pc' = "loop"
            /\ (session_pc' = "returned" /\ final_result.present)
                  => Len(registry') = final_result.total]_vars

\* C14: in every list of the accumulator the ids are strictly increasing in
\* list order (hence pairwise distinct), at every point of a session
C14_IdsSequential ==
    final_result.present =>
        \A t \in DOMAIN final_result.lists :
          \A i, j \in 1..Len(final_result.lists[t]) :
            i < j => final_result.lists[t][i].id < final_result.lists[t][j].id

\* the deficits of a session's accumulator are not all zero
QuotaUnmet(result) ==
    IF session = "questions" THEN NonEmptyDict(MissingOf(result))
    ELSE MissingChallenges(result) > 0

\* the entries reg_after holds beyond reg_before are one per record of
\* result, with the record's type and content
PersistsExactly(reg_before, reg_after, result) ==
    /\ Len(reg_after) = Len(reg_before) + result.total
    /\ SubSeq(reg_after, 1, Len(reg_before)) = reg_before
    /\ \A t \in DOMAIN result.lists : \A i \in 1..Len(result.lists[t]) :
          \E k \in (Len(reg_before) + 1)..Len(reg_after) :
             /\ reg_after[k].type = t
             /\ reg_after[k].text = result.lists[t][i].text
    /\ \A k \in (Len(reg_before) + 1)..Len(reg_after) :
          \E t \in DOMAIN result.lists : \E i \in 1..Len(result.lists[t]) :
             /\ reg_after[k].type = t
             /\ reg_after[k].text = result.lists[t][i].text

\* C15: when a session ends with a non-empty accumulator and unmet quota,
\* the registry gains exactly one entry per accumulated record, and every
\* accumulated record came from a generate call of this session
C15_PersistsAccumulated ==
    [][(/\ session_pc = "loop"
        /\ session_pc' = "returned"
        /\ final_result'.present
        /\ QuotaUnmet(final_result'))
       => /\ PersistsExactly(registry, registry', final_result')
          /\ \A t \in DOMAIN final_result'.lists :
               \A i \in 1..Len(final_result'.lists[t]) :
                 final_result'.lists[t][i].text[1] \in 1..generate_calls']_vars

\* C16: a session that stopped with unmet quota reports to its caller an
\* outcome different from the one a session that met the quota reports
C16_ExhaustionVisible ==
    SessionEnded =>
        IF QuotaUnmet(final_result)
        THEN ~GenerationSucceeded(exit_code)
        ELSE GenerationSucceeded(exit_code)

\* C17: a question session whose accumulator holds 8 or more questions
\* while a bucket is in deficit has stopped: it is never in the loop, where
\* the next generate call would be made
C17_OvergenerationStop ==
    (/\ session = "questions"
     /\ final_result.present
     /\ final_result.total >= total_limit
     /\ NonEmptyDict(MissingOf(final_result)))
    => SessionEnded

\* a question session stopped before its last attempt with 8 or more
\* questions and a bucket in deficit
C17_Witness ==
    /\ session = "questions"
    /\ SessionEnded
    /\ generate_calls < max_attempts
    /\ final_result.total >= total_limit
    /\ NonEmptyDict(MissingOf(final_result))
    /\ exit_code = "0"

(***************************************************************************)
(* Properties of merge_questions and merge_challenges                      *)
(***************************************************************************)
\* the contents of a list of records, ids aside
Texts(list) == [i \in 1..Len(list) |-> list[i].text]

\* list is old followed by the first records of new, in their order
AppendsPrefix(list, old, new) ==
    /\ Len(old) <= Len(list)
    /\ Len(list) - Len(old) <= Len(new)
    /\ Texts(list) = Texts(old) \o SubSeq(Texts(new), 1, Len(list) - Len(old))

\* C12: merging a response into an accumulator within quota appends to each
\* bucket with a deficit exactly min(deficit, records of the bucket in the
\* response), nothing to a bucket without deficit, and what is appended to a
\* list are the first records of the response's list, in their order
C12_MergeCeiling ==
    fn_call.fn \in {"merge_questions", "merge_challenges"} /\ fn_call.returned =>
        LET old == fn_call.existing_result
            new == fn_call.new_result
            types == IF fn_call.fn = "merge_questions" THEN QuestionTypeSet
                     ELSE {"challenges"} IN
        /\ \A t \in types : AppendsPrefix(fn_call.value.lists[t], old.lists[t], new.lists[t])
        /\ IF fn_call.fn = "merge_questions"
           THEN \A b \in Buckets :
                  CurrentCount(fn_call.value, b) - CurrentCount(old, b)
                    = Min(MissingOf(old)[b], CurrentCount(new, b))
           ELSE Len(fn_call.value.lists["challenges"]) - Len(old.lists["challenges"])
                  = Min(MissingChallenges(old), Len(new.lists["challenges"]))

\* a response of 5 challenges was merged into an accumulator with deficit 2:
\* exactly 2 were appended
C12_Witness ==
    /\ fn_call.fn = "merge_challenges"
    /\ fn_call.returned
    /\ MissingChallenges(fn_call.existing_result) = 2
    /\ Len(fn_call.new_result.lists["challenges"]) = 5
    /\ Len(fn_call.value.lists["challenges"]) = required_challenges

(***************************************************************************)
(* Properties of one pass of the question loop                             *)
(***************************************************************************)
\* the response covers every deficit of the accumulator
CoversDeficits(final, result) ==
    \A b \in Buckets : CurrentCount(result, b) >= MissingOf(final)[b]

RunningChallengeRuns ==
    {k \in ServiceCallIds : /\ service_calls[k].fn \in ChallengeFunctions
                            /\ service_calls[k].pc \in {"generating", "saving"}}

\* the calls whose generate_challenges.py process saved its challenges
FinishedChallengeRuns ==
    {k \in ServiceCallIds : /\ service_calls[k].fn \in ChallengeFunctions
                            /\ service_calls[k].returncode = "0"}

\* C18: no two generate_challenges.py runs overlap, and every challenge a
\* finished run persisted is in the registry
C18_RegistrySingleWriter ==
    /\ Cardinality(RunningChallengeRuns) <= 1
    /\ \A k \in FinishedChallengeRuns : ChallengesOfRun(k) \subseteq challenges_registry

\* C19: a call of save_questions_uuid or save_challenges_uuid leaves the
\* entries and item files that existed unchanged, adds one entry and one
\* item file under a new uuid for each record of the accumulator, and sets
\* the metadata total to the number of registry entries
C19_AppendOnly ==
    (fn_call.fn \in SaveFunctions /\ fn_call.returned) =>
       LET old == fn_call.store
           new == fn_call.value
           records == RecordsToSave(fn_call.result.lists, TypesOf(SaveKind(fn_call.fn)))
           n == Len(old.registry)
           old_uuids == {old.registry[i].uuid : i \in 1..n} \cup DOMAIN old.files
       IN /\ Len(new.registry) = n + Len(records)
          /\ SubSeq(new.registry, 1, n) = old.registry
          /\ \A u \in DOMAIN old.files :
                u \in DOMAIN new.files /\ new.files[u] = old.files[u]
          /\ \A i \in 1..Len(records) :
                LET e == new.registry[n + i] IN
                /\ e.uuid \notin old_uuids
                /\ \A j \in 1..Len(records) : j # i => new.registry[n + j].uuid # e.uuid
                /\ e.type = records[i].type /\ e.text = records[i].text
                /\ e.uuid \in DOMAIN new.files
                /\ new.files[e.uuid] = [type |-> e.type, text |-> e.text]
          /\ Cardinality(DOMAIN new.files) = Cardinality(DOMAIN old.files) + Len(records)
          /\ new.total = Len(new.registry)

\* a save of several records into a registry that already has entries
C19_Witness ==
    /\ fn_call.fn \in SaveFunctions
    /\ fn_call.returned
    /\ Len(fn_call.store.registry) = MaxStored
    /\ Len(fn_call.value.registry) >= MaxStored + 2

\* C20: for every content at most one set of easy questions and at most
\* one set of medium questions is generated, and a content whose current
\* difficulty is hard gets hard questions again when the set is completed
C20_DifficultyProgression ==
    \A c \in ContentIds :
      /\ generations[c]["easy"] <= 1
      /\ generations[c]["medium"] <= 1
      /\ progress.questions[c].current_available_difficulty = "hard"
           => get_next_difficulty("hard", progress.questions[c]) = "hard"

(***************************************************************************)
(* Properties of the parsers                                               *)
(***************************************************************************)
\* C21: every multiple-choice record returned has an answer key that is the
\* key of an option with text, a block whose answer key is not among its
\* options with text is not returned, and a returned record holds the
\* answer and the options of its block unaltered
C21_AnswerAmongOptions ==
    (fn_call.fn = "_parse_multiple_choice_questions" /\ fn_call.returned) =>
       /\ \A j \in 1..Len(fn_call.value) :
            LET q == fn_call.value[j]
                block == fn_call.content[q.id]
            IN /\ \E k \in OptionKeys :
                    /\ q.correct_answer = KeyText(k)
                    /\ block.options_block
                    /\ block.options[k] # Absent
                    /\ Strip(block.options[k]) # <<>>
               /\ q.correct_answer = Strip(block.answer)
               /\ \A k \in OptionKeys :
                    IF k \in q.options.keys
                    THEN q.options.values[k] = Strip(block.options[k])
                    ELSE \/ ~block.options_block
                         \/ block.options[k] = Absent
                         \/ Strip(block.options[k]) = <<>>
       /\ \A i \in 1..Len(fn_call.content) :
            LET block == fn_call.content[i] IN
            (\A k \in OptionKeys :
               \/ block.answer = Absent
               \/ Strip(block.answer) # KeyText(k)
               \/ ~block.options_block
               \/ block.options[k] = Absent
               \/ Strip(block.options[k]) = <<>>)
              => \A j \in 1..Len(fn_call.value) : fn_call.value[j].id # i

\* a response whose first block has answer key e is parsed and its second
\* block is returned
C21_Witness ==
    /\ fn_call.fn = "_parse_multiple_choice_questions"
    /\ fn_call.returned
    /\ Len(fn_call.content) = 2
    /\ fn_call.content[1].answer = <<"e">>
    /\ fn_call.content[1].options_block
    /\ fn_call.content[1].text # Absent
    /\ Len(fn_call.value) = 1
    /\ fn_call.value[1].id = 2

ExtractFunctions == {"parse_simple_xml_tag", "tutor_parse_simple_xml_tag"}

\* the positions <<i, j>> of the well-formed pairs of the tag in the text:
\* an opening tag, a closing tag after it and no tag of that name between
WellFormedPairs(text, tag) ==
    {p \in (1..Len(text)) \X (1..Len(text)) :
       /\ p[1] < p[2]
       /\ text[p[1]] = OpenTag(tag)
       /\ text[p[2]] = CloseTag(tag)
       /\ \A k \in (p[1] + 1)..(p[2] - 1) : text[k] \notin {OpenTag(tag), CloseTag(tag)}}

\* C22: for a text that contains a well-formed pair of the tag whose inner
\* text has no tag of that name, parse_simple_xml_tag returns the inner
\* text of such a pair without its leading and trailing whitespace (None
\* standing for an inner text of whitespace only)
C22_RoundTrip ==
    (fn_call.fn \in ExtractFunctions /\ fn_call.returned
       /\ WellFormedPairs(fn_call.response_str, fn_call.tag_name) # {}) =>
       \E p \in WellFormedPairs(fn_call.response_str, fn_call.tag_name) :
         fn_call.value = Content(fn_call.response_str, p[1], p[2])


\* the tags the strategies after the exact match would extract with: the
\* typos of the table, the tags within edit distance 2, the tag itself with
\* another closing tag, and the variants of the tag
CandidateTags(text, tag) ==
    {TyposOf[tag][i] : i \in 1..Len(TyposOf[tag])}
      \cup find_similar_tags(text, tag)
      \cup {tag}
      \cup {n \in FoundTags(text) : VariantCount(text, tag, n) > 0}

\* C25: the tutor app's parse_simple_xml_tag returns None only if the exact
\* match, the typo table, the fuzzy match and the recovery of mismatched
\* pairs all yield no content for the tag
C25_NotFoundOnlyAfterAll ==
    (fn_call.fn = "tutor_parse_simple_xml_tag" /\ fn_call.returned
       /\ fn_call.value = NotFound) =>
       /\ parse_simple_xml_tag(fn_call.response_str, fn_call.tag_name) = NotFound
       /\ \A actual_tag \in CandidateTags(fn_call.response_str, fn_call.tag_name) :
            extract_content_with_mismatched_tags(fn_call.response_str, actual_tag,
                                                 fn_call.tag_name) = NotFound


TypoCallReturned ==
    /\ fn_call.fn = "tutor_parse_simple_xml_tag"
    /\ fn_call.returned
    /\ "typo" \in DOMAIN fn_call

HasTags(text) == \E i \in 1..Len(text) : text[i] \in OpenTags \cup CloseTags

SectionsReturned == fn_call.fn = "_parse_sections_intelligently" /\ fn_call.returned

\* the positions of the opening section tags of a text
Openings(text) == {i \in 1..Len(text) : text[i] \in SectionOpenTags}

\* the end of the section opened at position i when its closing tag is
\* absent: the next opening tag, or the end of the block
UnclosedEnd(text, i) ==
    IF \E j \in Openings(text) : j > i
    THEN (CHOOSE j \in Openings(text) : j > i /\ \A k \in Openings(text) : k > i => j <= k) - 1
    ELSE Len(text)

\* the section opened at position i has no closing tag after it
Unclosed(text, i) ==
    \A j \in (i + 1)..Len(text) : text[j] # SectionClose[SectionNum[text[i]]]

\* the text of the section opened at position i as the claim describes it
ExpectedSection(text, i) ==
    LET end == IF Unclosed(text, i) THEN UnclosedEnd(text, i)
               ELSE (CHOOSE j \in (i + 1)..Len(text) :
                       /\ text[j] = SectionClose[SectionNum[text[i]]]
                       /\ \A k \in (i + 1)..(j - 1) : text[k] # SectionClose[SectionNum[text[i]]]) - 1
    IN Strip(RemoveSectionTags(SubSeq(text, i + 1, end)))

\* C24: the sections returned are the sections with content in the order
\* of their opening tags, a section without closing tag reaching to the
\* next opening tag or the end of the block; they are numbered 1..K in
\* that order whatever their labels and none is empty
C24_SectionsRecovered ==
    SectionsReturned =>
       LET text == fn_call.content
           kept == {i \in Openings(text) : ExpectedSection(text, i) # <<>>}
       IN /\ Len(fn_call.value) = Cardinality(kept)
          /\ \A k \in 1..Len(fn_call.value) :
               /\ fn_call.value[k].section_number = k
               /\ fn_call.value[k].content # <<>>
               /\ \E i \in kept :
                    /\ Cardinality({j \in kept : j <= i}) = k
                    /\ fn_call.value[k].content = ExpectedSection(text, i)

\* <section_1>A<section_2>B</section_2> yields the sections (1, A), (2, B)
C24_Witness ==
    /\ SectionsReturned
    /\ fn_call.content = <<SectionOpen[1], "A", SectionOpen[2], "B", SectionClose[2]>>
    /\ fn_call.value = <<[section_number |-> 1, content |-> <<"A">>],
                         [section_number |-> 2, content |-> <<"B">>]>>


\* C26: a record with a boolean field is accepted only if the text of the
\* field, in lower case, is one of the affirmative or negative tokens
C26_BooleanVocabulary ==
    (fn_call.fn \in BooleanParsers /\ fn_call.returned /\ fn_call.value.accepted) =>
       Lower[fn_call.token] \in AcceptedTokens


(***************************************************************************)
(* Properties of the queries of feedback_queue.py                          *)
(***************************************************************************)
CompletedOf(tr) == {t \in DOMAIN tr : tr[t].status = TASK_STATUS_COMPLETED}

\* C27: the estimated wait reported for a PENDING task is (queue_position
\* - 1) times the average processing time of the COMPLETED tasks, 120
\* seconds when there is none, in minutes, and is not negative
C27_EstimatedWait ==
    (fn_call.fn = "get_task_status" /\ fn_call.returned
       /\ fn_call.records[fn_call.task_id].status = TASK_STATUS_PENDING) =>
       LET estimate == fn_call.value.estimated_wait_minutes
           position == fn_call.value.queue_position
           completed == CompletedOf(fn_call.records)
       IN /\ estimate.den > 0
          /\ estimate.num >= 0
          /\ IF completed = {}
             THEN estimate.num * 60 = (position - 1) * 120 * estimate.den
             ELSE estimate.num * 60 * Cardinality(completed)
                    = (position - 1) * SumProcessingTime(fn_call.records, completed)
                        * estimate.den

\* a PENDING task behind another one is told one average processing time
\* while one task has completed
C27_Witness ==
    /\ fn_call.fn = "get_task_status"
    /\ fn_call.returned
    /\ fn_call.value.queue_position = 2
    /\ Cardinality(CompletedOf(fn_call.records)) = 1
    /\ fn_call.value.estimated_wait_minutes.num > 0

(***************************************************************************)
(* Properties of cleanup_old_tasks                                         *)
(***************************************************************************)
\* C28: a cleanup_old_tasks(h) call removes from task_results exactly the
\* records created more than h hours before the call, leaves every other
\* record as it was, and leaves the queue as it was
C28_CleanupFrame ==
    [][(CleanupsDone' # CleanupsDone) =>
         /\ DOMAIN task_results' =
              {t \in DOMAIN task_results :
                 ~(fn_call'.now - task_results[t].created_at > fn_call'.hours)}
         /\ \A t \in DOMAIN task_results' : task_results'[t] = task_results[t]
         /\ feedback_queue' = feedback_queue]_vars

\* a call that removed a record, kept a younger one that is no longer
\* PENDING, and found a task waiting in the queue
C28_Witness ==
    /\ fn_call.fn = "cleanup_old_tasks"
    /\ fn_call.old_task_ids # {}
    /\ \E t \in DOMAIN task_results :
         /\ task_results[t].status # TASK_STATUS_PENDING
         /\ task_results[t].created_at <= fn_call.now
    /\ feedback_queue # <<>>

(***************************************************************************)
(* Properties of the queue statistics                                      *)
(***************************************************************************)
\* C29: with tasks submitted only to the initialised queue and no
\* cleanup_old_tasks call, get_queue_stats reports as many queued tasks as
\* PENDING records, in every state reached by create_feedback_task, worker
\* steps, stop_feedback_queue and initialize_feedback_queue
C29_QueueSizeIsPending ==
    get_queue_stats.queue_size = get_queue_stats.pending_tasks

\* two tasks wait in the queue of a second worker while the task the
\* cancelled first worker had in hand is still PROCESSING
C29_Witness ==
    /\ Cardinality(CreatedWorkers) = 2
    /\ get_queue_stats.queue_size = 2
    /\ get_queue_stats.processing_tasks = 1
    /\ \E w \in WorkerIds : WorkerDone(w)

(***************************************************************************)
(* Properties of the restart of the queue                                  *)
(***************************************************************************)
\* the tasks accepted after the recorded initialize_feedback_queue call
AcceptedAfterInitialize ==
    IF InitializeReturned
    THEN {t \in DOMAIN task_results : t > fn_call.uuid_count}
    ELSE {}

\* C30: once initialize_feedback_queue has returned, every task accepted
\* afterwards leaves PENDING unless a stop_feedback_queue call begins, also
\* when initialize_feedback_queue ran while an earlier stop_feedback_queue
\* call was awaiting the cancelled worker
C30_WorkerAfterRestart ==
    \A t \in TaskIds :
        (t \in AcceptedAfterInitialize /\ StatusOf(t) = TASK_STATUS_PENDING)
           ~> (StatusOf(t) # TASK_STATUS_PENDING \/ ~InitializeReturned)

(***************************************************************************)
(* Properties of the progress file                                         *)
(***************************************************************************)
\* C31: once easy_generated is saved as true for a content, it is still
\* true after a trigger_initial_questions call for another content, running
\* concurrently, has saved its own progress
C31_ProgressFlagsKept ==
    [][\A c \in ContentIds, k \in ServiceCallIds :
         (/\ progress.questions[c].easy_generated
          /\ service_calls[k].fn = "trigger_initial_questions"
          /\ service_calls[k].content # c
          /\ service_calls[k].pc = "exited"
          /\ service_calls'[k].pc = "returned")
         => progress'.questions[c].easy_generated]_vars

(***************************************************************************)
(* Properties of the outcome of a task                                     *)
(***************************************************************************)
\* what process_feedback_task returns for a response the parser accepted,
\* with or without the submission id the worker adds
ParsedFeedback == {"feedback", "feedback_with_submission_id"}

\* C32: a task becomes COMPLETED only when generate returned a response the
\* challenge-feedback parser accepted; when generate returns the raw text
\* or an empty result the task ends in ERROR; the result of a COMPLETED
\* task is a parsed feedback record
C32_CompletedOnlyWhenParsed ==
    /\ [][\A t \in DOMAIN task_results :
            (/\ task_results[t].status # TASK_STATUS_COMPLETED
             /\ task_results'[t].status = TASK_STATUS_COMPLETED)
            => \E w \in WorkerIds : /\ workers[w].pc = "resume"
                                    /\ workers[w].task = t
                                    /\ workers[w].outcome = "parsed"]_vars
    /\ [][\A w \in WorkerIds :
            (/\ workers[w].pc = "resume"
             /\ workers[w].outcome \in {"raw_text", "empty"}
             /\ workers'[w].pc # "resume"
             /\ ~workers[w].cancel)
            => task_results'[workers[w].task].status = TASK_STATUS_ERROR]_vars
    /\ [](\A t \in DOMAIN task_results :
            task_results[t].status = TASK_STATUS_COMPLETED
               => task_results[t].result \in ParsedFeedback)

\* one task ended in ERROR because generate returned the raw text, another
\* because the result was empty, and a third one is COMPLETED
C32_Witness ==
    \E t, u, v \in DOMAIN task_results :
        /\ task_results[t].error = ErrorMessage("raw_text")
        /\ task_results[u].error = ErrorMessage("empty")
        /\ task_results[v].status = TASK_STATUS_COMPLETED

(***************************************************************************)
(* Properties of the worker over deleted records                           *)
(***************************************************************************)
\* the positions in the queue of the tasks that have a record
RecordedPositions == {i \in 1..Len(feedback_queue) : HasRecord(feedback_queue[i])}

\* the first of them
FirstRecorded == CHOOSE i \in RecordedPositions : \A j \in RecordedPositions : i <= j

\* C33: when cleanup_old_tasks removed the record of a task that waits in
\* the queue or is being processed, the worker does not end: every step of
\* the worker leaves it waiting in get() with the queue emptied of tasks
\* without a record, or processing the first queued task that has a record,
\* the tasks behind that one still queued
C33_WorkerSurvivesCleanup ==
    [][\A w \in WorkerIds :
         (workers[w].pc \in {"get", "resume"} /\ workers'[w] # workers[w])
         => IF RecordedPositions = {}
            THEN /\ workers'[w].pc = "get"
                 /\ feedback_queue' = <<>>
            ELSE /\ workers'[w].pc = "to_thread"
                 /\ workers'[w].task = feedback_queue[FirstRecorded]
                 /\ task_results'[feedback_queue[FirstRecorded]].status
                       = TASK_STATUS_PROCESSING
                 /\ feedback_queue' = SubSeq(feedback_queue, FirstRecorded + 1,
                                             Len(feedback_queue))]_vars

\* the record of a task that waited or was being processed was removed,
\* the worker is through with that task, and a task accepted after it is
\* COMPLETED
C33_Witness ==
    /\ fn_call.fn = "cleanup_old_tasks"
    /\ \E t \in fn_call.unfinished, u \in DOMAIN task_results :
         /\ t < u
         /\ t \notin Queued
         /\ \A w \in WorkerIds : workers[w].task # t
         /\ task_results[u].status = TASK_STATUS_COMPLETED

(***************************************************************************)
(* Properties of an overgenerated question session                         *)
(***************************************************************************)
Overgenerated == final_result.present /\ NonEmptyDict(OvergeneratedOf(final_result))

\* C34: in a question session a bucket comes to hold more than its quota
\* only through the first successful attempt, and from then on every
\* attempt leaves the accumulator as it is, also while other buckets are in
\* deficit
C34_OvergeneratedFrozen ==
    [][session = "questions" =>
         /\ Overgenerated => final_result' = final_result
         /\ (~Overgenerated /\ Overgenerated') => ~final_result.present]_vars

\* a question session ended after a parsed response arrived for an
\* accumulator that held too many records in one bucket and too few in
\* another: the accumulator still holds the records of one response only
C34_Witness ==
    /\ session = "questions"
    /\ SessionEnded
    /\ Overgenerated
    /\ NonEmptyDict(MissingOf(final_result))
    /\ last_outcome = "dict"
    /\ \E call \in 1..(generate_calls - 1) :
         \A t \in QuestionTypeSet : \A i \in 1..Len(final_result.lists[t]) :
             final_result.lists[t][i].text[1] = call

\* C35: a task whose feedback was generated ends COMPLETED with the
\* feedback as its result and no error, whether save_challenge_submission
\* returned or raised; the submission id is in the result only when it
\* returned
C35_SaveFailureStillCompletes ==
    [][\A w \in WorkerIds :
         (/\ workers[w].pc = "resume"
          /\ workers[w].outcome = "parsed"
          /\ workers'[w].pc # "resume"
          /\ ~workers[w].cancel)
         => /\ task_results'[workers[w].task].status = TASK_STATUS_COMPLETED
            /\ task_results'[workers[w].task].result \in ParsedFeedback
            /\ task_results'[workers[w].task].error = None]_vars

\* a task is COMPLETED with the feedback as its result and no submission id
\* (the save raised), another one with the submission id
C35_Witness ==
    \E t, u \in DOMAIN task_results :
        /\ task_results[t].status = TASK_STATUS_COMPLETED
        /\ task_results[t].result = "feedback"
        /\ task_results[u].status = TASK_STATUS_COMPLETED
        /\ task_results[u].result = "feedback_with_submission_id"

(***************************************************************************)
(* Properties of the task records                                          *)
(***************************************************************************)
\* C36: in every reachable state and for every task record, started_at is
\* null exactly when the status is PENDING, completed_at is set exactly
\* when the status is COMPLETED or ERROR, result is set exactly when the
\* status is COMPLETED and error is set exactly when the status is ERROR
C36_RecordConsistent ==
    \A t \in DOMAIN task_results :
       LET rec == task_results[t] IN
       /\ (rec.started_at = None) <=> (rec.status = TASK_STATUS_PENDING)
       /\ (rec.completed_at # None) <=> (rec.status \in Terminal)
       /\ (rec.result # None) <=> (rec.status = TASK_STATUS_COMPLETED)
       /\ (rec.error # None) <=> (rec.status = TASK_STATUS_ERROR)

\* a task is COMPLETED, another ended in ERROR, and the task a cancelled
\* worker had in hand is still PROCESSING
C36_Witness ==
    /\ \E w \in WorkerIds : WorkerDone(w)
    /\ \E t, u, v \in DOMAIN task_results :
         /\ task_results[t].status = TASK_STATUS_COMPLETED
         /\ task_results[u].status = TASK_STATUS_ERROR
         /\ task_results[v].status = TASK_STATUS_PROCESSING

(***************************************************************************)
(* Properties of the report session                                        *)
(***************************************************************************)
\* C37: in a report session a section that is present is never overwritten;
\* a required section that is missing gets the text of the first parsed
\* report that has it, and the notes section is never changed once the
\* first parsed report became the accumulator
C37_ReportSectionsKept ==
    [][(session = "report" /\ final_result.present) =>
         \A s \in ReportSections :
            /\ final_result.sections[s] # 0
                  => final_result'.sections[s] = final_result.sections[s]
            /\ s = "notes" => final_result'.sections[s] = final_result.sections[s]
            /\ (s \in required_sections /\ final_result.sections[s] = 0
                /\ session_pc = "loop")
                  => final_result'.sections[s] = last_outcome'.parsed[s]]_vars

\* the report returned holds required sections of three different
\* responses, and the last response had a notes section and sections the
\* report already held, none of which was taken
C37_Witness ==
    /\ session = "report"
    /\ session_pc = "returned"
    /\ exit_code = "success"
    /\ {final_result.sections[s] : s \in required_sections} = 1..max_retries
    /\ final_result.sections["notes"] = 0
    /\ last_outcome.parsed["notes"] # 0
    /\ \E s \in required_sections :
         /\ last_outcome.parsed[s] # 0
         /\ final_result.sections[s] # last_outcome.parsed[s]

====
